---- MODULE Spec2Model ----
(***************************************************************************)
(* Model of the MasteringEQ plug-in core: the two spectral estimators      *)
(* (pre-EQ and post-EQ FIFO / FFT buffer / block-ready flag), the          *)
(* measurement session of the processor, the reference-curve builder and   *)
(* the reference-analysis job of the editor.                               *)
(*                                                                         *)
(* Levels are integers.  Spectrum levels are whole dB; reference-band      *)
(* levels are hundredths of a dB (float arithmetic is modelled as          *)
(* fixed-point arithmetic at that resolution).                             *)
(***************************************************************************)
EXTENDS Integers, Sequences, FiniteSets, TLC

(***************************************************************************)
(* Bounds of the model                                                     *)
(***************************************************************************)
\* model size of one FFT frame (fftSize = 1 << 12 in the program)
FftSize == 2
\* largest host block (samples per processBlock call)
MaxBlock == 2
\* number of bands of the third-octave list a spectrum covers in the model
NumBands == 1
\* largest number of stored measurement snapshots
MaxSnapshots == 2

\* sample values the host delivers (amplitude classes)
Samples == {0, 1}
\* content of a float array that was declared but never written
Uninit == -1

\* floorDb of the spectral estimator and of getAveragedSpectrum
floorDb == -160
\* band levels an FFT hop can yield in the model (whole dB, multiples of 10)
Levels == {floorDb, -20}

\* Terzband-Mittenfrequenzen, in tenths of a Hz
thirdOctaveCenterFreqs ==
  << 200, 250, 315, 400, 500, 630, 800, 1000, 1250, 1600, 2000,
     2500, 3150, 4000, 5000, 6300, 8000, 10000, 12500, 16000, 20000,
     25000, 31500, 40000, 50000, 63000, 80000, 100000, 125000, 160000, 200000 >>

VARIABLES
  \* ---- processor: post-EQ estimator
  fifo, fifoIndex, fftData, nextFFTBlockReady, spectrumArray,
  \* ---- processor: pre-EQ estimator
  preEQFifo, preEQFifoIndex, preEQFftData, nextPreEQFFTBlockReady,
  preEQSpectrumArray,
  \* ---- processor: measurement session
  measurementBuffer, measuring,
  \* ---- position of the audio thread inside processBlock
  audioPc,
  \* ---- position of the message thread inside timerCallback
  timerPc,
  \* ---- whether getAveragedSpectrum was called, and what the last call
  \*      returned
  averaged,
  \* ---- processor: reference curve
  referenceBands,
  \* ---- reference curve as read (JSON bands, or the per-band percentiles of
  \*      the analysed file), and how far its processing has come
  refInput, refStage,
  \* ---- analyseFileToReferenceBands: the vector `out`
  out,
  \* ---- processor: whether a correction curve is held
  hasTargetCorrections,
  \* ---- editors: how many were created, whether the last one is open
  editorsCreated, editorAlive,
  \* ---- editor: load-reference button
  referenceAnalysisRunning, referenceFileChooser,
  \* ---- referenceAnalysisPool: jobs waiting, jobs on a pool thread
  poolQueue, poolRunning,
  \* ---- message thread: completion callbacks posted with callAsync
  messageQueue,
  \* ---- what the last click on the button and the last completion
  \*      callback did
  lastClick, lastCallback,
  \* ---- processor: genre of the dropdown, correction curve, parameters
  \*      (input gain and band gains in tenths of a dB, band Qs in
  \*      hundredths)
  selectedGenreId, targetCorrections, inputGain, bandGains, bandQs,
  \* ---- editor: whether the measurement button accepts clicks
  measureButtonEnabled,
  \* ---- editor: the flag of startAutoEqAsync, the fits on autoEqPool, the
  \*      results posted to the message thread
  autoEqRunning, autoEqPool, autoEqPosted,
  \* ---- a call of one of the fit's functions: its arguments, its result
  calcInput, calcOutput

postVars == << fifo, fifoIndex, fftData, nextFFTBlockReady >>
preVars == << preEQFifo, preEQFifoIndex, preEQFftData, nextPreEQFFTBlockReady >>
spectrumVars == << spectrumArray, preEQSpectrumArray >>
measVars == << measurementBuffer, measuring >>
vars == << fifo, fifoIndex, fftData, nextFFTBlockReady, spectrumArray,
           preEQFifo, preEQFifoIndex, preEQFftData, nextPreEQFFTBlockReady,
           preEQSpectrumArray, measurementBuffer, measuring, audioPc,
           timerPc, averaged, referenceBands, refInput, refStage, out,
           hasTargetCorrections, editorsCreated, editorAlive,
           referenceAnalysisRunning, referenceFileChooser, poolQueue,
           poolRunning, messageQueue, lastClick, lastCallback,
           selectedGenreId, targetCorrections, inputGain, bandGains, bandQs,
           measureButtonEnabled, autoEqRunning, autoEqPool, autoEqPosted,
           calcInput, calcOutput >>
processorVars == << postVars, preVars, spectrumVars, measVars, audioPc,
                    timerPc, averaged >>
refVars == << referenceBands, refInput, refStage, out >>
editorVars == << hasTargetCorrections, editorsCreated, editorAlive,
                 referenceAnalysisRunning, referenceFileChooser, poolQueue,
                 poolRunning, messageQueue, lastClick, lastCallback >>
paramVars == << inputGain, bandGains, bandQs >>
autoEqVars == << autoEqRunning, autoEqPool, autoEqPosted >>
calcVars == << calcInput, calcOutput >>
fitVars == << selectedGenreId, targetCorrections, paramVars,
              measureButtonEnabled, autoEqVars, calcVars >>

(***************************************************************************)
(* Helpers                                                                 *)
(***************************************************************************)
\* juce::zeromem on a float array of one frame
ZeroFrame == [i \in 1..FftSize |-> 0]
\* a float array that was declared and not yet written
UninitFrame == [i \in 1..FftSize |-> Uninit]

\* The block-ready flags are atomic booleans: a store of the flag becomes
\* visible after the writes that precede it in the storing thread.
FlagIsAtomic == TRUE

\* value of a block-ready flag while the audio thread is still writing the
\* FFT buffer: unchanged for an atomic flag; for a plain bool the store may
\* already be visible
FlagDuringCopy(flag) == IF FlagIsAtomic THEN {flag} ELSE {flag, TRUE}

\* the audio thread is outside processBlock
AudioIdle == [phase |-> "idle", sub |-> "push", left |-> 0, n |-> 0]

(***************************************************************************)
(* Construction: AudioPluginAudioProcessor::AudioPluginAudioProcessor      *)
(* zeroes the pre-EQ arrays; the post-EQ arrays are declared only.         *)
(***************************************************************************)
InitProcessor ==
  /\ fifo = UninitFrame
  /\ fifoIndex = 0
  /\ fftData = [stage |-> "uninit", frame |-> UninitFrame]
  /\ nextFFTBlockReady = FALSE
  /\ spectrumArray = << >>
  /\ preEQFifo = ZeroFrame
  /\ preEQFifoIndex = 0
  /\ preEQFftData = [stage |-> "zero", frame |-> ZeroFrame]
  /\ nextPreEQFFTBlockReady = FALSE
  /\ preEQSpectrumArray = << >>
  /\ measurementBuffer = << >>
  /\ measuring = FALSE
  /\ audioPc = AudioIdle
  /\ timerPc = "idle"
  /\ averaged = [called |-> FALSE, spectrum |-> << >>]

\* no reference curve is loaded
InitReference ==
  /\ referenceBands = << >>
  /\ refInput = << >>
  /\ refStage = "none"
  /\ out = << >>

\* the processor holds no correction curve; its editor is open, with the
\* button idle and the pool empty
InitEditor ==
  /\ hasTargetCorrections = FALSE
  /\ editorsCreated = 1
  /\ editorAlive = TRUE
  /\ referenceAnalysisRunning = FALSE
  /\ referenceFileChooser = "none"
  /\ poolQueue = << >>
  /\ poolRunning = << >>
  /\ messageQueue = << >>
  /\ lastClick = "none"
  /\ lastCallback = "none"

\* number of EQ bands
numBands == 31

\* createParameterLayout: defaults of the parameters; the constructor zeroes
\* the corrections; no genre is selected, so the measurement button of the
\* new editor is disabled
InitFit ==
  /\ selectedGenreId = 0
  /\ targetCorrections = [i \in 1..numBands |-> 0]
  /\ inputGain = 0
  /\ bandGains = [i \in 1..numBands |-> 0]
  /\ bandQs = [i \in 1..numBands |-> 432]
  /\ measureButtonEnabled = FALSE
  /\ autoEqRunning = FALSE
  /\ autoEqPool = << >>
  /\ autoEqPosted = << >>
  /\ calcInput = [kind |-> "none"]
  /\ calcOutput = [stage |-> "none"]

(***************************************************************************)
(* Audio thread: processBlock pushes every sample of the block into the    *)
(* pre-EQ FIFO, filters, then pushes every sample into the post-EQ FIFO.   *)
(* A push that finds the FIFO full and the block-ready flag clear writes   *)
(* the FFT buffer (zeromem, memcpy) and stores the flag; the write is two  *)
(* steps of the audio thread, so that the timer can run in between.        *)
(***************************************************************************)
ProcessBlockBegin(n) ==
  /\ audioPc.phase = "idle"
  /\ audioPc' = [phase |-> "pre", sub |-> "push", left |-> n, n |-> n]
  /\ UNCHANGED << postVars, preVars, spectrumVars, measVars, timerPc, averaged >>
  /\ UNCHANGED << refVars, editorVars, fitVars >>

\* (variant: the block ends after its pre-EQ pushes)
AfterPush_PreOnly(pc) ==
  IF pc.left > 1 THEN [pc EXCEPT !.sub = "push", !.left = pc.left - 1]
  ELSE AudioIdle

\* position of the audio thread after one more sample of the block is stored
AfterPush(pc) ==
  IF pc.left > 1 THEN [pc EXCEPT !.sub = "push", !.left = pc.left - 1]
  ELSE IF pc.phase = "pre"
       THEN [phase |-> "post", sub |-> "push", left |-> pc.n, n |-> pc.n]
       ELSE AudioIdle

\* (variant: the frame is copied whatever the flag says)
PostCopyAllowed_NoCheck == TRUE
\* if (!nextFFTBlockReady.load()): the completed frame may be copied
PostCopyAllowed == ~nextFFTBlockReady
\* if (!nextPreEQFFTBlockReady)
PreCopyAllowed == ~nextPreEQFFTBlockReady

\* pushNextSampleIntoFifo, FIFO full, flag clear: zeromem(fftData)
PushPostBeginCopy ==
  /\ audioPc.phase = "post" /\ audioPc.sub = "push"
  /\ fifoIndex = FftSize
  /\ PostCopyAllowed
  /\ fftData' = [stage |-> "zero", frame |-> ZeroFrame]
  /\ nextFFTBlockReady' \in FlagDuringCopy(nextFFTBlockReady)
  /\ audioPc' = [audioPc EXCEPT !.sub = "copy"]
  /\ UNCHANGED << fifo, fifoIndex, preVars, spectrumVars, measVars, timerPc,
                  averaged >>
  /\ UNCHANGED << refVars, editorVars, fitVars >>

\* memcpy(fftData, fifo); nextFFTBlockReady.store(true); fifoIndex = 0;
\* fifo[fifoIndex++] = sample
PushPostEndCopy(sample) ==
  /\ audioPc.phase = "post" /\ audioPc.sub = "copy"
  /\ fftData' = [stage |-> "frame", frame |-> fifo]
  /\ nextFFTBlockReady' = TRUE
  /\ fifo' = [fifo EXCEPT ![1] = sample]
  /\ fifoIndex' = 1
  /\ audioPc' = AfterPush(audioPc)
  /\ UNCHANGED << preVars, spectrumVars, measVars, timerPc, averaged >>
  /\ UNCHANGED << refVars, editorVars, fitVars >>

\* pushNextSampleIntoFifo, FIFO full, flag still set: the frame is dropped
PushPostDrop(sample) ==
  /\ audioPc.phase = "post" /\ audioPc.sub = "push"
  /\ fifoIndex = FftSize
  /\ ~PostCopyAllowed
  /\ fifo' = [fifo EXCEPT ![1] = sample]
  /\ fifoIndex' = 1
  /\ audioPc' = AfterPush(audioPc)
  /\ UNCHANGED << fftData, nextFFTBlockReady, preVars, spectrumVars,
                  measVars, timerPc, averaged >>
  /\ UNCHANGED << refVars, editorVars, fitVars >>

\* pushNextSampleIntoFifo, FIFO not full
PushPostStore(sample) ==
  /\ audioPc.phase = "post" /\ audioPc.sub = "push"
  /\ fifoIndex < FftSize
  /\ fifo' = [fifo EXCEPT ![fifoIndex + 1] = sample]
  /\ fifoIndex' = fifoIndex + 1
  /\ audioPc' = AfterPush(audioPc)
  /\ UNCHANGED << fftData, nextFFTBlockReady, preVars, spectrumVars,
                  measVars, timerPc, averaged >>
  /\ UNCHANGED << refVars, editorVars, fitVars >>

\* pushNextSampleIntoPreEQFifo, FIFO full, flag clear: zeromem(preEQFftData)
PushPreBeginCopy ==
  /\ audioPc.phase = "pre" /\ audioPc.sub = "push"
  /\ preEQFifoIndex = FftSize
  /\ PreCopyAllowed
  /\ preEQFftData' = [stage |-> "zero", frame |-> ZeroFrame]
  /\ nextPreEQFFTBlockReady' \in FlagDuringCopy(nextPreEQFFTBlockReady)
  /\ audioPc' = [audioPc EXCEPT !.sub = "copy"]
  /\ UNCHANGED << preEQFifo, preEQFifoIndex, postVars, spectrumVars, measVars,
                  timerPc, averaged >>
  /\ UNCHANGED << refVars, editorVars, fitVars >>

\* memcpy(preEQFftData, preEQFifo); nextPreEQFFTBlockReady = true;
\* preEQFifoIndex = 0; preEQFifo[preEQFifoIndex++] = sample
PushPreEndCopy(sample) ==
  /\ audioPc.phase = "pre" /\ audioPc.sub = "copy"
  /\ preEQFftData' = [stage |-> "frame", frame |-> preEQFifo]
  /\ nextPreEQFFTBlockReady' = TRUE
  /\ preEQFifo' = [preEQFifo EXCEPT ![1] = sample]
  /\ preEQFifoIndex' = 1
  /\ audioPc' = AfterPush(audioPc)
  /\ UNCHANGED << postVars, spectrumVars, measVars, timerPc, averaged >>
  /\ UNCHANGED << refVars, editorVars, fitVars >>

\* pushNextSampleIntoPreEQFifo, FIFO full, flag still set
PushPreDrop(sample) ==
  /\ audioPc.phase = "pre" /\ audioPc.sub = "push"
  /\ preEQFifoIndex = FftSize
  /\ ~PreCopyAllowed
  /\ preEQFifo' = [preEQFifo EXCEPT ![1] = sample]
  /\ preEQFifoIndex' = 1
  /\ audioPc' = AfterPush(audioPc)
  /\ UNCHANGED << preEQFftData, nextPreEQFFTBlockReady, postVars,
                  spectrumVars, measVars, timerPc, averaged >>
  /\ UNCHANGED << refVars, editorVars, fitVars >>

\* (variant: the sample lands in the post-EQ FIFO)
PushPreStore_PostFifo(sample) ==
  /\ audioPc.phase = "pre" /\ audioPc.sub = "push"
  /\ preEQFifoIndex < FftSize
  /\ fifo' = [fifo EXCEPT ![preEQFifoIndex + 1] = sample]
  /\ preEQFifoIndex' = preEQFifoIndex + 1
  /\ audioPc' = AfterPush(audioPc)
  /\ UNCHANGED << preEQFifo, preEQFftData, nextPreEQFFTBlockReady, fifoIndex,
                  fftData, nextFFTBlockReady, spectrumVars, measVars, timerPc,
                  averaged >>
  /\ UNCHANGED << refVars, editorVars, fitVars >>

\* pushNextSampleIntoPreEQFifo, FIFO not full
PushPreStore(sample) ==
  /\ audioPc.phase = "pre" /\ audioPc.sub = "push"
  /\ preEQFifoIndex < FftSize
  /\ preEQFifo' = [preEQFifo EXCEPT ![preEQFifoIndex + 1] = sample]
  /\ preEQFifoIndex' = preEQFifoIndex + 1
  /\ audioPc' = AfterPush(audioPc)
  /\ UNCHANGED << preEQFftData, nextPreEQFFTBlockReady, postVars,
                  spectrumVars, measVars, timerPc, averaged >>
  /\ UNCHANGED << refVars, editorVars, fitVars >>

(***************************************************************************)
(* Spectral estimator output.  The band magnitudes an FFT hop yields are   *)
(* an input of the model (lv); the array is rebuilt from scratch on every  *)
(* hop, one point per band of the centre-frequency list.                   *)
(***************************************************************************)
SpectrumOf(lv) ==
  [b \in 1..NumBands |->
     [frequency |-> thirdOctaveCenterFreqs[b], level |-> lv[b]]]

BandLevels(levelSet) == [1..NumBands -> levelSet]

(***************************************************************************)
(* Measurement session of the processor                                    *)
(***************************************************************************)
\* (variant: the snapshot is taken from the post-EQ spectrum)
addMeasurementSnapshot_PostEQ(buffer, isMeasuring, spectrum) ==
  IF isMeasuring /\ spectrumArray # << >>
  THEN Append(buffer, spectrumArray) ELSE buffer
\* measurementBuffer.push_back(preEQSpectrumArray), guarded
addMeasurementSnapshot(buffer, isMeasuring, spectrum) ==
  IF isMeasuring /\ spectrum # << >> THEN Append(buffer, spectrum) ELSE buffer

(***************************************************************************)
(* Message thread: timerCallback.  The in-place transform of each FFT      *)
(* buffer (window, FFT, band reduction) spans two steps of the timer so    *)
(* that the audio thread can run in between.                               *)
(***************************************************************************)
\* if (processorRef.getNextFFTBlockReady())
PostTransformAllowed == nextFFTBlockReady
\* if (processorRef.getNextPreEQFFTBlockReady())
PreTransformAllowed == nextPreEQFFTBlockReady

\* timer fires; post-EQ block ready: window.multiplyWithWindowingTable
TimerPostBegin ==
  /\ timerPc = "idle"
  /\ PostTransformAllowed
  /\ fftData' = [fftData EXCEPT !.stage = "windowed"]
  /\ timerPc' = "postFFT"
  /\ UNCHANGED << fifo, fifoIndex, nextFFTBlockReady, preVars, spectrumVars,
                  measVars, audioPc, averaged >>
  /\ UNCHANGED << refVars, editorVars, fitVars >>

\* timer fires; no post-EQ block ready
TimerPostSkip ==
  /\ timerPc = "idle"
  /\ ~PostTransformAllowed
  /\ timerPc' = "preCheck"
  /\ UNCHANGED << postVars, preVars, spectrumVars, measVars, audioPc,
                  averaged >>
  /\ UNCHANGED << refVars, editorVars, fitVars >>

\* rest of updateSpectrumArray, then setNextFFTBlockReady(false)
TimerPostEnd(lv) ==
  /\ timerPc = "postFFT"
  /\ fftData' = [fftData EXCEPT !.stage = "magnitudes"]
  /\ spectrumArray' = SpectrumOf(lv)
  /\ nextFFTBlockReady' = FALSE
  /\ timerPc' = "preCheck"
  /\ UNCHANGED << fifo, fifoIndex, preVars, preEQSpectrumArray, measVars,
                  audioPc, averaged >>
  /\ UNCHANGED << refVars, editorVars, fitVars >>

\* pre-EQ block ready: preEQWindow.multiplyWithWindowingTable
TimerPreBegin ==
  /\ timerPc = "preCheck"
  /\ PreTransformAllowed
  /\ ~(measuring /\ Len(measurementBuffer) >= MaxSnapshots)
  /\ preEQFftData' = [preEQFftData EXCEPT !.stage = "windowed"]
  /\ timerPc' = "preFFT"
  /\ UNCHANGED << preEQFifo, preEQFifoIndex, nextPreEQFFTBlockReady, postVars,
                  spectrumVars, measVars, audioPc, averaged >>
  /\ UNCHANGED << refVars, editorVars, fitVars >>

\* no pre-EQ block ready: timerCallback returns
TimerPreSkip ==
  /\ timerPc = "preCheck"
  /\ ~PreTransformAllowed
  /\ timerPc' = "idle"
  /\ UNCHANGED << postVars, preVars, spectrumVars, measVars, audioPc,
                  averaged >>
  /\ UNCHANGED << refVars, editorVars, fitVars >>

\* rest of updatePreEQSpectrumArray, setNextPreEQFFTBlockReady(false),
\* if (isMeasuring()) addMeasurementSnapshot(); timerCallback returns
TimerPreEnd(lv) ==
  /\ timerPc = "preFFT"
  /\ preEQFftData' = [preEQFftData EXCEPT !.stage = "magnitudes"]
  /\ preEQSpectrumArray' = SpectrumOf(lv)
  /\ nextPreEQFFTBlockReady' = FALSE
  /\ measurementBuffer' =
       IF measuring
       THEN addMeasurementSnapshot(measurementBuffer, measuring, preEQSpectrumArray')
       ELSE measurementBuffer
  /\ timerPc' = "idle"
  /\ UNCHANGED << preEQFifo, preEQFifoIndex, postVars, spectrumArray,
                  measuring, audioPc, averaged >>
  /\ UNCHANGED << refVars, editorVars, fitVars >>

(***************************************************************************)
(* Message thread: measurement API of the processor.  These run between    *)
(* timer callbacks (same thread).                                          *)
(***************************************************************************)
\* (variant: the flag is set, the old snapshots are kept)
startMeasurement_KeepBuffer ==
  /\ timerPc = "idle"
  /\ measuring' = TRUE
  /\ UNCHANGED << postVars, preVars, spectrumVars, measurementBuffer,
                  audioPc, timerPc, averaged >>
  /\ UNCHANGED << refVars, editorVars, fitVars >>

startMeasurement ==
  /\ timerPc = "idle"
  /\ measurementBuffer' = << >>
  /\ measuring' = TRUE
  /\ UNCHANGED << postVars, preVars, spectrumVars, audioPc, timerPc,
                  averaged >>
  /\ UNCHANGED << refVars, editorVars, fitVars >>

stopMeasurement ==
  /\ timerPc = "idle"
  /\ measuring' = FALSE
  /\ UNCHANGED << postVars, preVars, spectrumVars, measurementBuffer,
                  audioPc, timerPc, averaged >>
  /\ UNCHANGED << refVars, editorVars, fitVars >>

clearMeasurement ==
  /\ timerPc = "idle"
  /\ measurementBuffer' = << >>
  /\ measuring' = FALSE
  /\ UNCHANGED << postVars, preVars, spectrumVars, audioPc, timerPc,
                  averaged >>
  /\ UNCHANGED << refVars, editorVars, fitVars >>

(***************************************************************************)
(* getAveragedSpectrum: per band, mean of 10^(dB/10) over the snapshots,   *)
(* converted back with 10*log10.                                           *)
(*                                                                         *)
(* Snapshot levels are whole multiples of 10 dB, so every power is a power *)
(* of ten and a sum of powers is a decimal numeral whose digit at 10^e is  *)
(* the number of snapshots at level 10*e.  The sum is kept relative to its *)
(* leading power, to 8 decimal places (PowerSumMantissa).  The averaged level is a whole dB:  *)
(* a level that is not a whole number of dB is represented by the whole dB *)
(* below it.                                                               *)
(***************************************************************************)
RECURSIVE Pow10(_)
Pow10(k) == IF k = 0 THEN 1 ELSE 10 * Pow10(k - 1)

\* 10^(8 - j/10) for j = 0..9, rounded up
TenthDecade ==
  << 100000000, 79432824, 63095735, 50118724, 39810718,
     31622777, 25118865, 19952624, 15848932, 12589255 >>

\* 10^(8 - j/10), rounded up, for j >= 0
PowerOfMinusDb(j) ==
  LET t == TenthDecade[(j % 10) + 1]
      d == Pow10(j \div 10)
  IN (t + d - 1) \div d

\* indices of the snapshots that have the band
ValidSnapshots(buffer, band) ==
  { i \in 1..Len(buffer) : band <= Len(buffer[i]) }

\* largest element of a non-empty set of integers
MaxOf(S) == CHOOSE x \in S : \A y \in S : y <= x
MinOf(S) == CHOOSE x \in S : \A y \in S : x <= y

\* powerSum / 10^(top/10), to 8 decimal places, where top is the
\* highest level among the snapshots
PowerSumMantissa(buffer, band, top) ==
  LET valid == ValidSnapshots(buffer, band)
      cnt(d) == Cardinality({ i \in valid :
                                buffer[i][band].level = top - 10 * d })
      RECURSIVE acc(_)
      acc(d) == IF d > 8 THEN 0
                ELSE cnt(d) * Pow10(8 - d) + acc(d + 1)
  IN acc(0)

\* (float)(10.0 * std::log10(meanPower)), relative to the highest level:
\* the whole dB at or below 10*log10(mantissa / validCount)
DbOfMean(mantissa, validCount) ==
  LET RECURSIVE down(_)
      down(j) == IF mantissa >= validCount * PowerOfMinusDb(j) \/ j >= 99
                 THEN j ELSE down(j + 1)
  IN 0 - down(0)

\* (variant: the dB values themselves are averaged)
AveragedLevel_DbMean(buffer, band) ==
  LET valid == ValidSnapshots(buffer, band)
      RECURSIVE sum(_)
      sum(S) == IF S = {} THEN 0
                ELSE LET i == CHOOSE x \in S : TRUE
                     IN buffer[i][band].level + sum(S \ {i})
  IN IF valid = {} THEN floorDb
     ELSE 0 - ((0 - sum(valid)) \div Cardinality(valid))

\* level of one band of the averaged spectrum
AveragedLevel(buffer, band) ==
  LET valid == ValidSnapshots(buffer, band)
      validCount == Cardinality(valid)
      top == MaxOf({ buffer[i][band].level : i \in valid })
  IN IF validCount > 0
     THEN IF top <= floorDb     \* meanPower <= floorPower
          THEN floorDb
          ELSE top + DbOfMean(PowerSumMantissa(buffer, band, top), validCount)
     ELSE floorDb

\* (variant: a single snapshot is not averaged)
getAveragedSpectrum_NeedsTwo(buffer) ==
  IF Len(buffer) < 2 THEN << >>
  ELSE [band \in 1..Len(buffer[1]) |->
          [frequency |-> buffer[1][band].frequency,
           level |-> AveragedLevel(buffer, band)]]

getAveragedSpectrum(buffer) ==
  IF buffer = << >> THEN << >>
  ELSE [band \in 1..Len(buffer[1]) |->
          [frequency |-> buffer[1][band].frequency,
           level |-> AveragedLevel(buffer, band)]]

\* a caller on the message thread asks for the averaged spectrum
GetAveragedSpectrum ==
  /\ timerPc = "idle"
  /\ averaged' = [called |-> TRUE,
                   spectrum |-> getAveragedSpectrum(measurementBuffer)]
  /\ UNCHANGED << postVars, preVars, spectrumVars, measVars, audioPc,
                  timerPc >>
  /\ UNCHANGED << refVars, editorVars, fitVars >>

(***************************************************************************)
(* Specifications.  The steps of the audio thread, of timerCallback and of *)
(* the measurement API are the same in all of them.                        *)
(*   SpecFFT  follows the sample data through the two FIFOs, with silent   *)
(*            spectra and no measurement session;                          *)
(*   Spec     follows the measurement session, with silent samples;        *)
(*   SpecAvg  applies the measurement API to every session state (every    *)
(*            buffer of up to MaxSnapshots snapshots, measuring or not).   *)
(***************************************************************************)
Init == InitProcessor /\ InitReference /\ InitEditor /\ InitFit

AudioStep(sampleSet) ==
  \/ \E n \in 1..MaxBlock : ProcessBlockBegin(n)
  \/ PushPreBeginCopy
  \/ \E sample \in sampleSet : PushPreEndCopy(sample)
  \/ \E sample \in sampleSet : PushPreDrop(sample)
  \/ \E sample \in sampleSet : PushPreStore(sample)
  \/ PushPostBeginCopy
  \/ \E sample \in sampleSet : PushPostEndCopy(sample)
  \/ \E sample \in sampleSet : PushPostDrop(sample)
  \/ \E sample \in sampleSet : PushPostStore(sample)

TimerStep(levelSet) ==
  \/ TimerPostBegin
  \/ TimerPostSkip
  \/ \E lv \in BandLevels(levelSet) : TimerPostEnd(lv)
  \/ TimerPreBegin
  \/ TimerPreSkip
  \/ \E lv \in BandLevels(levelSet) : TimerPreEnd(lv)

SessionStep ==
  \/ startMeasurement
  \/ stopMeasurement
  \/ clearMeasurement

NextFFT == AudioStep(Samples) \/ TimerStep({floorDb})

SpecFFT == Init /\ [][NextFFT]_vars

Next == AudioStep({0}) \/ TimerStep(Levels) \/ SessionStep

Spec == Init /\ [][Next]_vars

\* snapshot levels of the session states SpecAvg starts from
AvgLevels == {floorDb, -60, -40, -30, -20}

\* every buffer of at most MaxSnapshots snapshots
SnapshotBuffers ==
  UNION { [1..k -> { SpectrumOf(lv) : lv \in BandLevels(AvgLevels) }] :
            k \in 0..MaxSnapshots }

InitAvg ==
  /\ fifo = UninitFrame
  /\ fifoIndex = 0
  /\ fftData = [stage |-> "uninit", frame |-> UninitFrame]
  /\ nextFFTBlockReady = FALSE
  /\ spectrumArray = << >>
  /\ preEQFifo = ZeroFrame
  /\ preEQFifoIndex = 0
  /\ preEQFftData = [stage |-> "zero", frame |-> ZeroFrame]
  /\ nextPreEQFFTBlockReady = FALSE
  /\ preEQSpectrumArray = << >>
  /\ measurementBuffer \in SnapshotBuffers
  /\ measuring \in BOOLEAN
  /\ audioPc = AudioIdle
  /\ timerPc = "idle"
  /\ averaged = [called |-> FALSE, spectrum |-> << >>]
  /\ InitReference
  /\ InitEditor
  /\ InitFit

NextAvg == SessionStep \/ GetAveragedSpectrum

SpecAvg == InitAvg /\ [][NextAvg]_vars

(***************************************************************************)
(* Properties of the estimators and of the measurement session             *)
(***************************************************************************)
AudioWritesPost == audioPc.phase = "post" /\ audioPc.sub = "copy"
AudioWritesPre == audioPc.phase = "pre" /\ audioPc.sub = "copy"
TimerTransformsPost == timerPc = "postFFT"
TimerTransformsPre == timerPc = "preFFT"

C2_StartClears ==
  [][startMeasurement => (measurementBuffer' = << >> /\ measuring')]_vars

\* a measurement is running with an empty buffer although the timer has
\* already produced a pre-EQ spectrum while measuring was off: the session
\* was started again
C2_Witness ==
  /\ measuring
  /\ measurementBuffer = << >>
  /\ preEQSpectrumArray # << >>
  /\ timerPc = "idle"

\* C3: the snapshot buffer grows only while measuring, by exactly one pre-EQ
\* spectrum per pre-EQ block the timer consumes; stopMeasurement clears the
\* flag and keeps the snapshots; while the flag is clear no tick appends.
C3_SnapshotPerBlock ==
  [][ /\ (measurementBuffer' # measurementBuffer /\ measurementBuffer' # << >>)
         => /\ measuring /\ measuring'
            /\ timerPc = "preFFT"
            /\ measurementBuffer' =
                 Append(measurementBuffer, preEQSpectrumArray')
      /\ (timerPc = "preFFT" /\ timerPc' = "idle")
         => Len(measurementBuffer') =
              Len(measurementBuffer) + (IF measuring THEN 1 ELSE 0)
      /\ stopMeasurement
         => (~measuring' /\ measurementBuffer' = measurementBuffer)
    ]_vars

\* after a stop with two snapshots stored, the timer has consumed another
\* pre-EQ block (the pre-EQ spectrum differs from the last snapshot and from
\* the post-EQ spectrum) and nothing was appended
C3_Witness ==
  /\ ~measuring
  /\ timerPc = "idle"
  /\ Len(measurementBuffer) = 2
  /\ preEQSpectrumArray # measurementBuffer[2]
  /\ spectrumArray # << >> /\ spectrumArray # preEQSpectrumArray

\* C4: getAveragedSpectrum returns an empty spectrum exactly when the
\* snapshot buffer is empty and changes neither the buffer nor the flag.
C4_AverageEmptyIffNoSnapshots ==
  [][GetAveragedSpectrum
       => /\ (averaged'.spectrum = << >>) <=> (measurementBuffer = << >>)
          /\ UNCHANGED measVars]_vars

\* getAveragedSpectrum was called and returned the empty spectrum, while a
\* measurement is running
C4_Witness ==
  /\ averaged.called /\ averaged.spectrum = << >>
  /\ measuring

\* levels of one band over the snapshots
BandLevelsOf(buffer, band) ==
  { buffer[i][band].level : i \in ValidSnapshots(buffer, band) }

\* C5: the average is taken in the power domain: snapshots that agree on a
\* band give exactly that level; one snapshot at -20 dB and one at the floor
\* give 10*log10((10^-2 + 10^-16)/2) = -23.01 dB (whole dB below: -24),
\* strictly above the floor and strictly below -20 dB; in general the result
\* lies between the lowest and the highest snapshot level, strictly when
\* they differ.
C5_PowerDomainAverage ==
  [][GetAveragedSpectrum =>
       \A band \in 1..Len(averaged'.spectrum) :
         LET ls == BandLevelsOf(measurementBuffer, band)
             r == averaged'.spectrum[band].level
         IN /\ (Cardinality(ls) = 1 => ls = {r})
            /\ (Len(measurementBuffer) = 2 /\ ls = {-20, floorDb}
                  => (r = -24 /\ r > floorDb /\ r < -20))
            /\ (Cardinality(ls) > 1 => (MinOf(ls) < r /\ r < MaxOf(ls)))
    ]_vars

\* the last average was taken over one snapshot at -20 dB and one at the
\* floor
C5_Witness ==
  /\ averaged.called
  /\ Len(measurementBuffer) = 2
  /\ BandLevelsOf(measurementBuffer, 1) = {-20, floorDb}
  /\ averaged.spectrum = getAveragedSpectrum(measurementBuffer)

(***************************************************************************)
(* Reference curve builder.  Levels of a reference band are kept in        *)
(* hundredths of a dB; a division rounds to the nearest hundredth.  A      *)
(* curve has NumRefBands bands, spread over the 31 third-octave            *)
(* frequencies from 20 Hz to 20 kHz.                                       *)
(***************************************************************************)
NumRefBands == 5

\* DisplayScale::minDb, the lowest level a band of an analysed file takes
minDb == -14000
kSpreadShrink == 55
kMaxBandWidthDb == 600
kMinBandWidthDb == 100
targetMidMedianDb == -6000

\* the band frequencies of the analysis, in tenths of a Hz
bandFreqs == thirdOctaveCenterFreqs

\* frequency of band i of a curve of n bands
BandFreq(i, n) ==
  IF n = 1 THEN bandFreqs[1]
  ELSE bandFreqs[1 + ((i - 1) * (Len(bandFreqs) - 1)) \div (n - 1)]

RoundDiv(a, b) == (2 * a + b) \div (2 * b)

\* a vector given by its elements, each computed once
Vector(elements) == elements \o << >>

RECURSIVE SumRange(_, _, _)
SumRange(cur, lo, hi) ==
  IF lo > hi THEN 0 ELSE cur[lo] + SumRange(cur, lo + 1, hi)

\* one pass of the moving average: the mean over the indices of the window
\* that lie inside the vector
smoothPass(cur, half) ==
  Vector([ i \in 1..Len(cur) |->
      LET lo == IF i - half < 1 THEN 1 ELSE i - half
          hi == IF i + half > Len(cur) THEN Len(cur) ELSE i + half
      IN RoundDiv(SumRange(cur, lo, hi), hi - lo + 1) ])

RECURSIVE smoothPasses(_, _, _)
smoothPasses(cur, half, passes) ==
  IF passes = 0 THEN cur
  ELSE smoothPasses(smoothPass(cur, half), half, passes - 1)

smoothMovingAverage(in, windowSize, passes) ==
  IF Len(in) < 3 \/ windowSize < 3 THEN in
  ELSE smoothPasses(in, windowSize \div 2, passes)

\* the shrunk interval around the median, limited to the band widths
shrinkSpread(m, p10, p90) ==
  LET lo == m - RoundDiv(kSpreadShrink * (m - p10), 100)
      hi == m + RoundDiv(kSpreadShrink * (p90 - m), 100)
      w == hi - lo
  IN IF w > kMaxBandWidthDb
       THEN [lo |-> m - kMaxBandWidthDb \div 2, hi |-> m + kMaxBandWidthDb \div 2]
     ELSE IF w < kMinBandWidthDb
       THEN [lo |-> m - kMinBandWidthDb \div 2, hi |-> m + kMinBandWidthDb \div 2]
     ELSE [lo |-> lo, hi |-> hi]

reclampToMedian_Skip(m, iv) == iv

\* if (lo > m) lo = m;  if (hi < m) hi = m;
reclampToMedian(m, iv) ==
  [lo |-> IF iv.lo > m THEN m ELSE iv.lo,
   hi |-> IF iv.hi < m THEN m ELSE iv.hi]

postProcessReferenceBands(bands) ==
  IF Len(bands) < 3 THEN bands
  ELSE
    LET p10 == smoothMovingAverage(Vector([i \in 1..Len(bands) |-> bands[i].p10]), 5, 2)
        med == smoothMovingAverage(Vector([i \in 1..Len(bands) |-> bands[i].median]), 5, 2)
        p90 == smoothMovingAverage(Vector([i \in 1..Len(bands) |-> bands[i].p90]), 5, 2)
    IN Vector([ i \in 1..Len(bands) |->
           LET iv == reclampToMedian(med[i], shrinkSpread(med[i], p10[i], p90[i]))
           IN [freq |-> bands[i].freq, p10 |-> iv.lo, median |-> med[i],
               p90 |-> iv.hi] ])

\* analyseFileToReferenceBands, after the percentiles: the medians alone are
\* smoothed
smoothMedians(bands) ==
  LET med == smoothMovingAverage(Vector([i \in 1..Len(bands) |-> bands[i].median]), 5, 2)
  IN Vector([ i \in 1..Len(bands) |-> [bands[i] EXCEPT !.median = med[i]] ])

RECURSIVE insertSorted(_, _)
insertSorted(x, sorted) ==
  IF sorted = << >> THEN << x >>
  ELSE IF x <= Head(sorted) THEN << x >> \o sorted
  ELSE << Head(sorted) >> \o insertSorted(x, Tail(sorted))

RECURSIVE sortAscending(_)
sortAscending(v) ==
  IF v = << >> THEN << >> ELSE insertSorted(Head(v), sortAscending(Tail(v)))

InMidRange(band) == band.freq >= 500 /\ band.freq <= 100000

\* the sorted medians of the bands from 50 Hz to 10 kHz
MidMedians(bands) ==
  LET sel == SelectSeq(bands, InMidRange)
  IN sortAscending(Vector([ i \in 1..Len(sel) |-> sel[i].median ]))

\* mids[mids.size() / 2]
MidMedianOf(bands) ==
  LET mids == MidMedians(bands) IN mids[(Len(mids) \div 2) + 1]

shiftBands(bands, shift) ==
  Vector([ i \in 1..Len(bands) |->
      [freq |-> bands[i].freq, p10 |-> bands[i].p10 + shift,
       median |-> bands[i].median + shift, p90 |-> bands[i].p90 + shift] ])

recentre(bands) ==
  IF MidMedians(bands) = << >> THEN bands
  ELSE shiftBands(bands, targetMidMedianDb - MidMedianOf(bands))

\* the bands analyseFileToReferenceBands returns for a readable file, from
\* the percentiles of its bands
analyseFileToReferenceBands(percentiles) ==
  postProcessReferenceBands(recentre(smoothMedians(percentiles)))

(***************************************************************************)
(* Inputs of the builder.  A genre file holds any three numbers per band;  *)
(* the percentiles of an analysed file are ordered and lie between minDb   *)
(* and 0 dB.  A genre file that cannot be read gives the empty curve.      *)
(***************************************************************************)
RefValues == {minDb, 0}

RefCurves ==
  { [ i \in 1..NumRefBands |->
        [freq |-> BandFreq(i, NumRefBands), p10 |-> c[i][1],
         median |-> c[i][2], p90 |-> c[i][3]] ] :
    c \in [1..NumRefBands -> RefValues \X RefValues \X RefValues] }

IsOrdered(band) == band.p10 <= band.median /\ band.median <= band.p90

IsPercentiles(curve) ==
  /\ curve # << >>
  /\ \A i \in 1..Len(curve) : IsOrdered(curve[i])

InitRef ==
  /\ InitProcessor
  /\ referenceBands = << >>
  /\ refInput \in RefCurves \cup { << >> }
  /\ refStage = "none"
  /\ out = << >>
  /\ InitEditor
  /\ InitFit

\* genreBox.onChange with a genre: loadReferenceCurve, then
\* postProcessReferenceBands on the loaded bands
GenreSelected ==
  /\ refStage = "none"
  /\ referenceBands' = postProcessReferenceBands(refInput)
  /\ refStage' = "genre"
  /\ UNCHANGED << refInput, out >>
  /\ UNCHANGED << processorVars, editorVars, fitVars >>

\* analyseFileToReferenceBands: the percentiles of the 31 band lists
AnalysePercentiles ==
  /\ refStage = "none"
  /\ IsPercentiles(refInput)
  /\ out' = refInput
  /\ refStage' = "percentiles"
  /\ UNCHANGED << referenceBands, refInput >>
  /\ UNCHANGED << processorVars, editorVars, fitVars >>

AnalyseSmoothMedians ==
  /\ refStage = "percentiles"
  /\ out' = smoothMedians(out)
  /\ refStage' = "smoothed"
  /\ UNCHANGED << referenceBands, refInput >>
  /\ UNCHANGED << processorVars, editorVars, fitVars >>

AnalyseRecentre ==
  /\ refStage = "smoothed"
  /\ out' = recentre(out)
  /\ refStage' = "recentred"
  /\ UNCHANGED << referenceBands, refInput >>
  /\ UNCHANGED << processorVars, editorVars, fitVars >>

AnalysePostProcess ==
  /\ refStage = "recentred"
  /\ out' = postProcessReferenceBands(out)
  /\ refStage' = "returned"
  /\ UNCHANGED << referenceBands, refInput >>
  /\ UNCHANGED << processorVars, editorVars, fitVars >>

\* the completion callback stores the returned bands
DeliverBands ==
  /\ refStage = "returned"
  /\ referenceBands' = out
  /\ refStage' = "file"
  /\ UNCHANGED << refInput, out >>
  /\ UNCHANGED << processorVars, editorVars, fitVars >>

NextRef ==
  \/ GenreSelected
  \/ AnalysePercentiles
  \/ AnalyseSmoothMedians
  \/ AnalyseRecentre
  \/ AnalysePostProcess
  \/ DeliverBands

SpecRef == InitRef /\ [][NextRef]_vars

WidthOf(band) == band.p90 - band.p10

C7_WidthInRange ==
  refStage \in {"genre", "file"} =>
    \A i \in 1..Len(referenceBands) :
      /\ WidthOf(referenceBands[i]) >= kMinBandWidthDb
      /\ WidthOf(referenceBands[i]) <= kMaxBandWidthDb

\* C7 for the bands of an analysed file alone, whose percentiles are
\* ordered: the width lies between 1 dB and 6 dB.
C7_WidthInRangeOfFile ==
  refStage = "file" =>
    \A i \in 1..Len(referenceBands) :
      /\ WidthOf(referenceBands[i]) >= kMinBandWidthDb
      /\ WidthOf(referenceBands[i]) <= kMaxBandWidthDb

\* C7, the part the code keeps: no band is narrower than 1 dB
C7_WidthAtLeastMin ==
  refStage \in {"genre", "file"} =>
    \A i \in 1..Len(referenceBands) :
      WidthOf(referenceBands[i]) >= kMinBandWidthDb

\* C8: in the curve the file analysis delivers, the median of the band
\* medians from 50 Hz to 10 kHz is -60 dB (to within 0.05 dB).
C8_MidMedianAtTarget ==
  refStage = "file" =>
    /\ MidMedianOf(referenceBands) - targetMidMedianDb <= 5
    /\ targetMidMedianDb - MidMedianOf(referenceBands) <= 5

\* C8, the part the code keeps: the re-centring step moves p10, median and
\* p90 of every band by one and the same amount and puts the mid median at
\* -60 dB; the post-processing that follows is what moves it away.
C8_UniformShift ==
  [][AnalyseRecentre =>
       /\ out' = shiftBands(out, out'[1].median - out[1].median)
       /\ MidMedianOf(out') = targetMidMedianDb
    ]_vars

(***************************************************************************)
(* Auto-EQ fit of the editor: log-frequency interpolation, residuals,      *)
(* corrections.  Levels are hundredths of a dB, frequencies tenths of a    *)
(* Hz; every frequency is one of the 31 third-octave frequencies.          *)
(***************************************************************************)
\* EQ band frequencies of the editor, in tenths of a Hz
eqFrequencies == thirdOctaveCenterFreqs

\* std::log10 of the 31 frequencies (in Hz), times 100000
log10Table ==
  << 130103, 139794, 149831, 160206, 169897, 179934, 190309, 200000,
     209691, 220412, 230103, 239794, 249831, 260206, 269897, 279934,
     290309, 300000, 309691, 320412, 330103, 339794, 349831, 360206,
     369897, 379934, 390309, 400000, 409691, 420412, 430103 >>

\* the table by frequency
log10ByFrequency ==
  [ f \in { eqFrequencies[k] : k \in 1..Len(eqFrequencies) } |->
      log10Table[CHOOSE k \in 1..Len(eqFrequencies) : eqFrequencies[k] = f] ]
    @@ << >>

log10Of(f) == log10ByFrequency[f]

kAutoEqAmount == 100
kAutoEqMaxCorr == 1200
\* DisplayScale::minDb + 10.0f
gateDb == minDb + 1000

jlimit(lo, hi, v) == IF v < lo THEN lo ELSE IF v > hi THEN hi ELSE v

\* the averaged spectrum (whole dB) with its levels in hundredths of a dB
InCentiDb(spectrum) ==
  LET points == Vector(spectrum)
  IN Vector([ i \in 1..Len(points) |->
                [frequency |-> points[i].frequency,
                 level |-> 100 * points[i].level] ])

\* t = (lf - l0) / (l1 - l0);  return y0 + t * (y1 - y0)
logInterpolate(f, f0, f1, y0, y1) ==
  y0 + RoundDiv((log10Of(f) - log10Of(f0)) * (y1 - y0),
                log10Of(f1) - log10Of(f0))

sampleLogInterpolatedSpectrum_NoClamp(pts, fHz, fallbackDb) ==
  IF pts = << >> THEN fallbackDb
  ELSE IF ~(\E i \in 2..Len(pts) : pts[i].frequency >= fHz
                                   /\ pts[i - 1].frequency < fHz)
    THEN fallbackDb
  ELSE LET i == CHOOSE k \in 2..Len(pts) :
                  /\ pts[k].frequency >= fHz
                  /\ \A j \in 2..(k - 1) : pts[j].frequency < fHz
       IN logInterpolate(fHz, pts[i - 1].frequency, pts[i].frequency,
                         pts[i - 1].level, pts[i].level)

sampleLogInterpolatedSpectrum(pts, fHz, fallbackDb) ==
  IF pts = << >> THEN fallbackDb
  ELSE IF fHz <= pts[1].frequency THEN pts[1].level
  ELSE IF fHz >= pts[Len(pts)].frequency THEN pts[Len(pts)].level
  ELSE LET i == CHOOSE k \in 2..Len(pts) :
                  /\ pts[k].frequency >= fHz
                  /\ \A j \in 2..(k - 1) : pts[j].frequency < fHz
       IN logInterpolate(fHz, pts[i - 1].frequency, pts[i].frequency,
                         pts[i - 1].level, pts[i].level)

sampleLogInterpolatedReferenceMedian(ref, fHz, fallbackDb) ==
  IF ref = << >> THEN fallbackDb
  ELSE IF fHz <= ref[1].freq THEN ref[1].median
  ELSE IF fHz >= ref[Len(ref)].freq THEN ref[Len(ref)].median
  ELSE LET i == CHOOSE k \in 2..Len(ref) :
                  /\ ref[k].freq >= fHz
                  /\ \A j \in 2..(k - 1) : ref[j].freq < fHz
       IN logInterpolate(fHz, ref[i - 1].freq, ref[i].freq,
                         ref[i - 1].median, ref[i].median)

findReferenceLevel_NoReference(ref, frequency) == minDb

findReferenceLevel(ref, frequency) ==
  sampleLogInterpolatedReferenceMedian(ref, frequency, minDb)

findMeasuredLevel(frequency, spectrum) ==
  sampleLogInterpolatedSpectrum(spectrum, frequency, minDb)

edgeWeight_NoFade(f) == 1000

\* the weight in thousandths: jmap(f, 20, 40, 0, 1) below 40 Hz,
\* jmap(f, 16000, 20000, 1, 0) above 16 kHz, limited to 0..1
edgeWeight(f) ==
  IF f < 400 THEN jlimit(0, 1000, RoundDiv((f - 200) * 1000, 400 - 200))
  ELSE IF f > 160000
    THEN jlimit(0, 1000, 1000 - RoundDiv((f - 160000) * 1000, 200000 - 160000))
  ELSE 1000

\* the EQ bands from 50 Hz to 10 kHz
MidBands == { i \in 1..numBands : eqFrequencies[i] >= 500
                                   /\ eqFrequencies[i] <= 100000 }

RECURSIVE SeqOfSet(_)
\* the elements of a set of band numbers, ascending
SeqOfSet(S) ==
  IF S = {} THEN << >>
  ELSE LET m == CHOOSE x \in S : \A y \in S : x <= y
       IN << m >> \o SeqOfSet(S \ {m})

MidBandSeq == SeqOfSet(MidBands)

computeReferenceViewOffsetDb(ref, spectrum) ==
  IF spectrum = << >> \/ ref = << >> THEN 0
  ELSE LET bands == MidBandSeq
           diffs == sortAscending(Vector(
                      [ k \in 1..Len(bands) |->
                          findReferenceLevel(ref, eqFrequencies[bands[k]])
                            - sampleLogInterpolatedSpectrum(
                                spectrum, eqFrequencies[bands[k]], minDb) ]))
       IN IF diffs = << >> THEN 0
          ELSE jlimit(-3600, 3600, diffs[(Len(diffs) \div 2) + 1])

gate_Off(measuredLevel) == measuredLevel

\* if (measuredLevel < gateDb) measuredLevel = gateDb;
gate(measuredLevel) == IF measuredLevel < gateDb THEN gateDb ELSE measuredLevel

calculateResidualsAligned(ref, spectrum, offsetDb) ==
  Vector([ i \in 1..numBands |->
    LET freq == eqFrequencies[i]
        refLevel == findReferenceLevel(ref, freq)
        measuredLevel == gate(findMeasuredLevel(freq, spectrum)) + offsetDb
    IN RoundDiv((refLevel - measuredLevel) * edgeWeight(freq), 1000) ])

calculateMeanOffset(residuals) ==
  LET bands == MidBandSeq
      sum == SumRange([ k \in 1..Len(bands) |-> residuals[bands[k]] ],
                      1, Len(bands))
      meanOffset == IF Len(bands) > 0 THEN RoundDiv(sum, Len(bands)) ELSE 0
  IN jlimit(-2400, 2400, meanOffset)

\* (variant: the corrections are stored as they come)
applyCorrections_NoClamp(residuals) == residuals
\* applyCorrections: the corrections, limited to +-kAutoEqMaxCorr
applyCorrections(residuals) ==
  Vector([ i \in 1..numBands |->
             jlimit(-kAutoEqMaxCorr, kAutoEqMaxCorr, residuals[i]) ])

validateAutoEQData_Always(ref, spectrum) == TRUE

validateAutoEQData(ref, spectrum) == spectrum # << >> /\ ref # << >>

\* the corrections applyAutoEQ stores for a validated spectrum
autoEqCorrections(ref, spectrum) ==
  LET offsetDb == computeReferenceViewOffsetDb(ref, spectrum)
      residuals == calculateResidualsAligned(ref, spectrum, offsetDb)
      meanOffset == calculateMeanOffset(residuals)
      removed == Vector([ i \in 1..numBands |->
                            residuals[i] - RoundDiv(2 * meanOffset, 10) ])
      smoothed == smoothMovingAverage(removed, 5, 1)
      scaled == Vector([ i \in 1..numBands |->
                           RoundDiv(smoothed[i] * kAutoEqAmount, 100) ])
  IN applyCorrections(scaled)

(***************************************************************************)
(* Load-reference button: file chooser, analysis job on the editor's pool  *)
(* of one thread, completion callback on the message thread.  The editor   *)
(* can be closed and opened again; a SafePointer holds the number of the   *)
(* editor it was taken from and is null once that editor is gone.          *)
(***************************************************************************)
MaxEditors == 2

\* juce::ThreadPool referenceAnalysisPool{ 1 }
NumPoolThreads == 1

\* what the chooser can hand back: no existing file, a file no reader
\* opens, an audio file
ChosenFiles == {"missing", "unreadable", "track"}

\* band percentiles of the audio file: a tone in the top band
TrackPercentiles ==
  [ i \in 1..NumRefBands |->
      [freq |-> BandFreq(i, NumRefBands), p10 |-> minDb,
       median |-> IF i = NumRefBands THEN 0 ELSE minDb,
       p90 |-> IF i = NumRefBands THEN 0 ELSE minDb] ]

\* bands of a genre file
GenreCurve ==
  [ i \in 1..NumRefBands |->
      [freq |-> BandFreq(i, NumRefBands), p10 |-> minDb, median |-> minDb,
       p90 |-> 0] ]

\* the bands of the audio file
TrackBands == analyseFileToReferenceBands(TrackPercentiles)

\* Job::analyseFileToReferenceBands: no reader, no bands
AnalysedBands(file) == IF file = "track" THEN TrackBands ELSE << >>

\* what loadReferenceCurve can be given: a file name and what
\* loadFileAsString finds under it (nothing, JSON without a "bands" array,
\* JSON with the bands of the genre)
CurveContents == {"", "noBands", "bands"}
CurveFiles == [name : {"", "genre.json"}, content : CurveContents]

loadReferenceCurve_KeepOnFailure(current, file) ==
  IF file.name = "" \/ file.content # "bands" THEN current ELSE GenreCurve

\* referenceBands.clear(), then the bands of the file if there are any
loadReferenceCurve(current, file) ==
  IF file.name = "" THEN << >>
  ELSE IF file.content = "" THEN << >>
  ELSE IF file.content = "bands" THEN GenreCurve
  ELSE << >>

\* ids of the genre dropdown: none, a genre
GenreIds == {0, 1}

\* levels of the pre-EQ spectrum while the editor is open
JobLevels == {-20}

\* positions of the input-gain slider, in tenths of a dB
InputGains == {0, 240}

InitJob ==
  /\ InitProcessor
  /\ InitReference
  /\ InitEditor
  /\ InitFit

SafeIsNull_Never(safe) == FALSE

\* safe == nullptr
SafeIsNull(safe) == ~(editorAlive /\ safe = editorsCreated)

ClickAllowed_Always == TRUE

\* if (referenceAnalysisRunning) return;
ClickAllowed == ~referenceAnalysisRunning

\* (variant: the button is enabled whatever is selected or loaded)
MeasureEnable_Always(genreId, bands) == TRUE

\* updateMeasurementButtonEnabledState: enable = hasGenre || hasReference
MeasureEnable(genreId, bands) == genreId # 0 \/ bands # << >>

\* updateMeasurementButtonEnabledState:
\* if (!enable && isMeasuring()) stopMeasurement()
MeasuringAfterUpdate(genreId, bands) ==
  IF ~MeasureEnable(genreId, bands) /\ measuring THEN FALSE ELSE measuring

\* what none of the editor's handlers writes
jobFrame == << postVars, preVars, spectrumArray, audioPc, timerPc, averaged,
               refInput, refStage, out, bandGains, bandQs, autoEqVars,
               calcVars >>

\* the measurement session, the fit and the genre
sessionFrame == << preEQSpectrumArray, measurementBuffer, measuring,
                   selectedGenreId, targetCorrections, inputGain,
                   measureButtonEnabled >>

\* the plugin window is opened again: the constructor restores the genre
\* of the processor and calls updateMeasurementButtonEnabledState
CreateEditor ==
  /\ ~editorAlive
  /\ editorsCreated < MaxEditors
  /\ editorsCreated' = editorsCreated + 1
  /\ editorAlive' = TRUE
  /\ referenceAnalysisRunning' = FALSE
  /\ referenceFileChooser' = "none"
  /\ lastClick' = "none"
  /\ measureButtonEnabled' = MeasureEnable(selectedGenreId, referenceBands)
  /\ measuring' = MeasuringAfterUpdate(selectedGenreId, referenceBands)
  /\ UNCHANGED << referenceBands, hasTargetCorrections, poolQueue,
                  poolRunning, messageQueue, lastCallback >>
  /\ UNCHANGED << jobFrame, preEQSpectrumArray, measurementBuffer,
                  selectedGenreId, targetCorrections, inputGain >>

JobPosts_OnlyDecoded(file) == file = "track"

\* whether runJob gets to its callAsync: it does so with the bands it has,
\* also when there was no reader for the file
JobPosts(file) == TRUE

\* the callback a job hands to callAsync
Posted(job) ==
  IF JobPosts(job.file)
    THEN << [safe |-> job.safe, bands |-> AnalysedBands(job.file)] >>
    ELSE << >>

RECURSIVE PostedBy(_, _)
\* the callbacks posted by the jobs of `running` that are in `finishing`
PostedBy(running, finishing) ==
  IF running = << >> THEN << >>
  ELSE (IF Len(running) \in finishing
          THEN PostedBy(SubSeq(running, 1, Len(running) - 1), finishing)
               \o Posted(running[Len(running)])
          ELSE PostedBy(SubSeq(running, 1, Len(running) - 1), finishing))

\* the editor is closed: the chooser and the buttons go, the pool drops its
\* waiting jobs and waits for the running ones; a job still analysing
\* either gets to its callAsync within the wait or its thread is killed
DestroyEditor ==
  /\ editorAlive
  /\ editorAlive' = FALSE
  /\ referenceAnalysisRunning' = FALSE
  /\ referenceFileChooser' = "none"
  /\ poolQueue' = << >>
  /\ poolRunning' = << >>
  /\ \E finishing \in SUBSET { k \in 1..Len(poolRunning) :
                                 poolRunning[k].pc = "analysing" } :
       messageQueue' = messageQueue \o PostedBy(poolRunning, finishing)
  /\ lastClick' = "none"
  /\ measureButtonEnabled' = FALSE
  /\ UNCHANGED << referenceBands, hasTargetCorrections, editorsCreated,
                  lastCallback >>
  /\ UNCHANGED << jobFrame, preEQSpectrumArray, measurementBuffer, measuring,
                  selectedGenreId, targetCorrections, inputGain >>

\* loadReferenceButton.onClick
ClickLoadReference ==
  /\ editorAlive
  /\ IF ClickAllowed
       THEN /\ referenceFileChooser' = "open"
            /\ lastClick' = "opened"
       ELSE /\ referenceFileChooser' = referenceFileChooser
            /\ lastClick' = "ignored"
  /\ UNCHANGED << referenceBands, hasTargetCorrections, editorsCreated,
                  editorAlive, referenceAnalysisRunning, poolQueue,
                  poolRunning, messageQueue, lastCallback >>
  /\ UNCHANGED << jobFrame, sessionFrame >>

\* the callback of launchAsync
ChooserClosed(file) ==
  /\ editorAlive
  /\ referenceFileChooser = "open"
  /\ referenceFileChooser' = "none"
  /\ IF file = "missing"
       THEN UNCHANGED << referenceAnalysisRunning, poolQueue >>
       ELSE /\ referenceAnalysisRunning' = TRUE
            /\ poolQueue' = Append(poolQueue,
                                   [safe |-> editorsCreated, file |-> file])
  /\ UNCHANGED << referenceBands, hasTargetCorrections, editorsCreated,
                  editorAlive, poolRunning, messageQueue, lastClick,
                  lastCallback >>
  /\ UNCHANGED << jobFrame, sessionFrame >>

\* a free pool thread takes the first waiting job
PoolStartJob ==
  /\ poolQueue # << >>
  /\ Len(poolRunning) < NumPoolThreads
  /\ poolRunning' = Append(poolRunning,
                           [safe |-> Head(poolQueue).safe,
                            file |-> Head(poolQueue).file,
                            pc |-> "analysing"])
  /\ poolQueue' = Tail(poolQueue)
  /\ UNCHANGED << referenceBands, hasTargetCorrections, editorsCreated,
                  editorAlive, referenceAnalysisRunning,
                  referenceFileChooser, messageQueue, lastClick,
                  lastCallback >>
  /\ UNCHANGED << jobFrame, sessionFrame >>

JobAnalyse_WritesBands(k) ==
  /\ k <= Len(poolRunning)
  /\ poolRunning[k].pc = "analysing"
  /\ messageQueue' = messageQueue \o Posted(poolRunning[k])
  /\ poolRunning' = [poolRunning EXCEPT ![k].pc = "posted"]
  /\ referenceBands' = AnalysedBands(poolRunning[k].file)
  /\ UNCHANGED << hasTargetCorrections, editorsCreated,
                  editorAlive, referenceAnalysisRunning,
                  referenceFileChooser, poolQueue, lastClick, lastCallback >>
  /\ UNCHANGED << jobFrame, sessionFrame >>

\* runJob: the analysis, then callAsync with the bands
JobAnalyse(k) ==
  /\ k <= Len(poolRunning)
  /\ poolRunning[k].pc = "analysing"
  /\ messageQueue' = messageQueue \o Posted(poolRunning[k])
  /\ poolRunning' = [poolRunning EXCEPT ![k].pc = "posted"]
  /\ UNCHANGED << referenceBands, hasTargetCorrections, editorsCreated,
                  editorAlive, referenceAnalysisRunning,
                  referenceFileChooser, poolQueue, lastClick, lastCallback >>
  /\ UNCHANGED << jobFrame, sessionFrame >>

\* runJob: return jobHasFinished
JobReturn(k) ==
  /\ k <= Len(poolRunning)
  /\ poolRunning[k].pc = "posted"
  /\ poolRunning' = [ i \in 1..(Len(poolRunning) - 1) |->
                        IF i < k THEN poolRunning[i] ELSE poolRunning[i + 1] ]
  /\ UNCHANGED << referenceBands, hasTargetCorrections, editorsCreated,
                  editorAlive, referenceAnalysisRunning,
                  referenceFileChooser, poolQueue, messageQueue, lastClick,
                  lastCallback >>
  /\ UNCHANGED << jobFrame, sessionFrame >>

\* the lambda given to callAsync, run on the message thread.  Without the
\* null test it writes through the pointer whatever became of the editor.
CompletionCallback ==
  /\ messageQueue # << >>
  /\ messageQueue' = Tail(messageQueue)
  /\ IF SafeIsNull(Head(messageQueue).safe)
       THEN /\ lastCallback' = "skipped"
            /\ UNCHANGED << referenceBands, hasTargetCorrections,
                            referenceAnalysisRunning, measureButtonEnabled,
                            measuring >>
       ELSE /\ referenceBands' = Head(messageQueue).bands
            /\ hasTargetCorrections' = FALSE
            /\ referenceAnalysisRunning' = FALSE
            /\ measureButtonEnabled' =
                 MeasureEnable(selectedGenreId, referenceBands')
            /\ measuring' =
                 MeasuringAfterUpdate(selectedGenreId, referenceBands')
            /\ lastCallback' = IF editorAlive
                                  /\ Head(messageQueue).safe = editorsCreated
                               THEN "applied" ELSE "appliedToDestroyed"
  /\ UNCHANGED << editorsCreated, editorAlive, referenceFileChooser,
                  poolQueue, poolRunning, lastClick >>
  /\ UNCHANGED << jobFrame, preEQSpectrumArray, measurementBuffer,
                  selectedGenreId, targetCorrections, inputGain >>

\* genreBox.onChange: the genre is stored, its curve loaded and
\* post-processed (or the curve cleared for no genre), then
\* updateMeasurementButtonEnabledState
GenreChanged(id, content) ==
  /\ editorAlive
  /\ selectedGenreId' = id
  /\ referenceBands' =
       IF id = 0 THEN << >>
       ELSE postProcessReferenceBands(
              loadReferenceCurve(referenceBands,
                                 [name |-> "genre.json", content |-> content]))
  /\ measureButtonEnabled' = MeasureEnable(id, referenceBands')
  /\ measuring' = MeasuringAfterUpdate(id, referenceBands')
  /\ UNCHANGED << hasTargetCorrections, editorsCreated, editorAlive,
                  referenceAnalysisRunning, referenceFileChooser, poolQueue,
                  poolRunning, messageQueue, lastClick, lastCallback >>
  /\ UNCHANGED << jobFrame, preEQSpectrumArray, measurementBuffer,
                  targetCorrections, inputGain >>

\* timerCallback with a pre-EQ block ready (the audio thread's filling of
\* the FIFO is left to the processor's own specifications): the pre-EQ
\* spectrum is updated and, while measuring, added to the buffer
TimerSnapshot(lv) ==
  /\ editorAlive
  /\ Len(measurementBuffer) < MaxSnapshots
  /\ preEQSpectrumArray' = SpectrumOf(lv)
  /\ measurementBuffer' =
       IF measuring
       THEN addMeasurementSnapshot(measurementBuffer, measuring,
                                   preEQSpectrumArray')
       ELSE measurementBuffer
  /\ UNCHANGED << referenceBands, editorVars >>
  /\ UNCHANGED << jobFrame, measuring, selectedGenreId, targetCorrections,
                  inputGain, measureButtonEnabled >>

\* the input-gain slider is moved
InputGainChanged(g) ==
  /\ editorAlive
  /\ inputGain' = g
  /\ UNCHANGED << referenceBands, editorVars >>
  /\ UNCHANGED << jobFrame, preEQSpectrumArray, measurementBuffer, measuring,
                  selectedGenreId, targetCorrections, measureButtonEnabled >>

\* what the handlers of the parameter widgets leave alone
paramFrame == << referenceBands, hasTargetCorrections, editorsCreated,
                 editorAlive, referenceAnalysisRunning, referenceFileChooser,
                 poolQueue, poolRunning, messageQueue, lastCallback, postVars,
                 preVars, spectrumArray, audioPc, timerPc, averaged, refInput,
                 refStage, out, autoEqVars, calcVars, sessionFrame >>

\* the slider of band i is moved, or the host sets the parameter: the
\* value is limited to the range of the slider and of the parameter
BandGainChanged(i, requested) ==
  /\ editorAlive
  /\ bandGains' = [bandGains EXCEPT ![i] = jlimit(-120, 120, requested)]
  /\ UNCHANGED << bandQs, lastClick, paramFrame >>

\* the Q knob of band i is moved, or the host sets the parameter
BandQChanged(i, requested) ==
  /\ editorAlive
  /\ bandQs' = [bandQs EXCEPT ![i] = jlimit(30, 1000, requested)]
  /\ UNCHANGED << bandGains, lastClick, paramFrame >>

\* (variant: the reset leaves the Qs where they are)
ResetButtonClicked_GainsOnly ==
  /\ editorAlive
  /\ bandGains' = [i \in 1..numBands |-> 0]
  /\ lastClick' = "reset"
  /\ UNCHANGED << bandQs, paramFrame >>
\* resetButton.onClick: resetAllBandsToDefault gives every band parameter
\* and every Q parameter its default value
ResetButtonClicked ==
  /\ editorAlive
  /\ bandGains' = [i \in 1..numBands |-> 0]
  /\ bandQs' = [i \in 1..numBands |-> 432]
  /\ lastClick' = "reset"
  /\ UNCHANGED paramFrame

\* (variant: the corrections of a fit are added to those held)
applyAutoEQ_Accumulate(done) ==
  LET averagedSpectrum == InCentiDb(getAveragedSpectrum(measurementBuffer))
  IN IF ~validateAutoEQData(referenceBands, averagedSpectrum)
       THEN /\ lastClick' = "fitRefused"
            /\ UNCHANGED << targetCorrections, hasTargetCorrections >>
       ELSE /\ targetCorrections' =
                 applyCorrections(
                   [ i \in 1..numBands |->
                       targetCorrections[i]
                         + autoEqCorrections(referenceBands,
                                             averagedSpectrum)[i] ])
            /\ hasTargetCorrections' = TRUE
            /\ lastClick' = done
\* applyAutoEQ: the corrections of the averaged spectrum against the
\* reference curve, or nothing when either is missing (done: what is
\* noted of a fit that was made)
applyAutoEQ(done) ==
  LET averagedSpectrum == InCentiDb(getAveragedSpectrum(measurementBuffer))
  IN IF ~validateAutoEQData(referenceBands, averagedSpectrum)
       THEN /\ lastClick' = "fitRefused"
            /\ UNCHANGED << targetCorrections, hasTargetCorrections >>
       ELSE /\ targetCorrections' =
                 autoEqCorrections(referenceBands, averagedSpectrum)
            /\ hasTargetCorrections' = TRUE
            /\ lastClick' = done

\* applyAutoEQ is called once more on the snapshots and the reference
\* curve the processor holds
RepeatAutoEQ ==
  /\ editorAlive
  /\ ~measuring
  /\ applyAutoEQ("fitRepeated")
  /\ UNCHANGED << referenceBands, editorsCreated, editorAlive,
                  referenceAnalysisRunning, referenceFileChooser, poolQueue,
                  poolRunning, messageQueue, lastCallback >>
  /\ UNCHANGED << jobFrame, preEQSpectrumArray, measurementBuffer, measuring,
                  selectedGenreId, inputGain, measureButtonEnabled >>

\* genreErkennenButton.onClick: a running measurement is stopped and the
\* fit made if there is a reference curve; otherwise a measurement starts
MeasureButtonClicked ==
  /\ editorAlive
  /\ measureButtonEnabled
  /\ IF measuring
       THEN /\ measuring' = FALSE
            /\ measureButtonEnabled' = TRUE
            /\ measurementBuffer' = measurementBuffer
            /\ IF referenceBands # << >>
                 THEN applyAutoEQ("fitApplied")
                 ELSE /\ lastClick' = "noReference"
                      /\ UNCHANGED << targetCorrections,
                                      hasTargetCorrections >>
       ELSE /\ measurementBuffer' = << >>
            /\ measuring' = TRUE
            /\ lastClick' = "measuring"
            /\ UNCHANGED << measureButtonEnabled, targetCorrections,
                            hasTargetCorrections >>
  /\ UNCHANGED << referenceBands, editorsCreated, editorAlive,
                  referenceAnalysisRunning, referenceFileChooser, poolQueue,
                  poolRunning, messageQueue, lastCallback >>
  /\ UNCHANGED << jobFrame, preEQSpectrumArray, selectedGenreId, inputGain >>

NextJob ==
  \/ CreateEditor
  \/ DestroyEditor
  \/ ClickLoadReference
  \/ \E file \in ChosenFiles : ChooserClosed(file)
  \/ PoolStartJob
  \/ \E k \in 1..NumPoolThreads : JobAnalyse(k)
  \/ \E k \in 1..NumPoolThreads : JobReturn(k)
  \/ CompletionCallback
  \/ \E id \in GenreIds, content \in CurveContents : GenreChanged(id, content)
  \/ \E lv \in BandLevels(JobLevels) : TimerSnapshot(lv)
  \/ MeasureButtonClicked

SpecJob == InitJob /\ [][NextJob]_vars

\* jobs whose analysis is still to come or under way
PendingAnalyses ==
  Len(poolQueue)
    + Cardinality({ k \in 1..Len(poolRunning) : poolRunning[k].pc = "analysing" })

\* C9: the reference analysis never runs in parallel with itself: the pool
\* has at most one job on a thread, at most one analysis is waiting or
\* under way and only while referenceAnalysisRunning is set, and a click on
\* the button while the flag is set opens no chooser and queues no job.
C9_NoParallelAnalysis ==
  /\ [](/\ Len(poolRunning) <= 1
        /\ PendingAnalyses <= 1
        /\ (PendingAnalyses = 1 => referenceAnalysisRunning))
  /\ [][(ClickLoadReference /\ referenceAnalysisRunning) =>
          /\ referenceFileChooser' = referenceFileChooser
          /\ referenceFileChooser' = "none"
          /\ poolQueue' = poolQueue
          /\ poolRunning' = poolRunning
       ]_vars

\* the button was clicked while the analysis of a file was under way, and
\* the click was ignored
C9_Witness ==
  /\ lastClick = "ignored"
  /\ referenceAnalysisRunning
  /\ Len(poolRunning) = 1
  /\ poolRunning[1].pc = "analysing"
  /\ referenceFileChooser = "none"

\* C10: a completion callback that arrives after the editor that started
\* the analysis was destroyed changes nothing: referenceBands and
\* hasTargetCorrections keep their values and no member of the destroyed
\* editor is touched, also when a new editor is open by then.
C10_CallbackAfterDestroy ==
  [][(CompletionCallback
        /\ ~(editorAlive /\ Head(messageQueue).safe = editorsCreated)) =>
       /\ referenceBands' = referenceBands
       /\ hasTargetCorrections' = hasTargetCorrections
       /\ referenceAnalysisRunning' = referenceAnalysisRunning
       /\ lastCallback' = "skipped"
    ]_vars

\* the callback of an analysis arrived after its editor was destroyed,
\* while the processor held a reference curve and a correction curve, and
\* while a second editor was running an analysis of its own
C10_Witness ==
  /\ lastCallback = "skipped"
  /\ referenceBands # << >>
  /\ hasTargetCorrections
  /\ editorAlive
  /\ editorsCreated = 2
  /\ referenceAnalysisRunning

\* C11: the analysis job writes no shared state itself: the steps of the
\* pool thread (taking the job, the analysis with its callAsync, the return)
\* leave referenceBands, hasTargetCorrections, referenceAnalysisRunning and
\* the measuring flag as they are; referenceBands changes only in a handler
\* of the message thread (the completion callback, the genre dropdown), and
\* then in one step to a complete curve: the empty one or one with all its
\* bands, which for the callback is the list the job had posted.
C11_JobWritesNothingShared ==
  [][/\ (PoolStartJob \/ \E k \in 1..NumPoolThreads :
                             JobAnalyse(k) \/ JobReturn(k))
          => /\ referenceBands' = referenceBands
             /\ hasTargetCorrections' = hasTargetCorrections
             /\ referenceAnalysisRunning' = referenceAnalysisRunning
             /\ measuring' = measuring
     /\ referenceBands' # referenceBands
          => /\ \/ CompletionCallback
                      /\ referenceBands' = Head(messageQueue).bands
                \/ \E id \in GenreIds, content \in CurveContents :
                      GenreChanged(id, content)
             /\ referenceBands' = << >> \/ Len(referenceBands') = NumRefBands
    ]_vars

\* a job has posted the bands of its track while the processor still holds
\* the genre's curve, its corrections and a running measurement
C11_Witness ==
  /\ Len(poolRunning) = 1
  /\ poolRunning[1].pc = "posted"
  /\ messageQueue # << >>
  /\ Head(messageQueue).bands = TrackBands
  /\ referenceBands # << >>
  /\ referenceBands # TrackBands
  /\ hasTargetCorrections
  /\ referenceAnalysisRunning
  /\ measuring

(***************************************************************************)
(* The load-reference machinery on its own, with the scheduling it relies  *)
(* on: a pool thread that has a job runs it, and the message loop          *)
(* dispatches what callAsync posted.                                       *)
(***************************************************************************)
NextLoad ==
  \/ CreateEditor
  \/ DestroyEditor
  \/ ClickLoadReference
  \/ \E file \in ChosenFiles : ChooserClosed(file)
  \/ PoolStartJob
  \/ \E k \in 1..NumPoolThreads : JobAnalyse(k)
  \/ \E k \in 1..NumPoolThreads : JobReturn(k)
  \/ CompletionCallback
  \/ \E id \in GenreIds, content \in CurveContents : GenreChanged(id, content)

SpecLoadFair ==
  /\ InitJob
  /\ [][NextLoad]_vars
  /\ WF_vars(PoolStartJob)
  /\ WF_vars(\E k \in 1..NumPoolThreads : JobAnalyse(k))
  /\ WF_vars(\E k \in 1..NumPoolThreads : JobReturn(k))
  /\ WF_vars(CompletionCallback)

\* analyses of editor e that have not been completed: jobs waiting, jobs
\* analysing, callbacks posted
InFlight(e) ==
  Cardinality({ i \in 1..Len(poolQueue) : poolQueue[i].safe = e })
    + Cardinality({ k \in 1..Len(poolRunning) :
                      poolRunning[k].safe = e /\ poolRunning[k].pc = "analysing" })
    + Cardinality({ i \in 1..Len(messageQueue) : messageQueue[i].safe = e })

\* C12: an analysis that has entered the busy state leaves it, and exactly
\* once: whenever referenceAnalysisRunning is set it is cleared again
\* later; the open editor is busy exactly while one analysis of its own is
\* not completed (never two, and none while it is not busy); the callback
\* that is applied finds the flag set and clears it, for a file that
\* decodes and for one that does not.
C12_BusyEndsOnce ==
  /\ referenceAnalysisRunning ~> ~referenceAnalysisRunning
  /\ [](editorAlive =>
          InFlight(editorsCreated) = IF referenceAnalysisRunning THEN 1 ELSE 0)
  /\ [][(CompletionCallback /\ ~SafeIsNull(Head(messageQueue).safe))
          => referenceAnalysisRunning /\ ~referenceAnalysisRunning'
       ]_vars

\* the analysis of a file without a reader was completed: the editor is no
\* longer busy, the curve of the genre was replaced by the empty list
C12_Witness ==
  /\ lastCallback = "applied"
  /\ ~referenceAnalysisRunning
  /\ editorAlive
  /\ referenceBands = << >>
  /\ selectedGenreId # 0
  /\ poolRunning # << >>
  /\ poolRunning[1].file = "unreadable"
  /\ poolRunning[1].pc = "posted"

(***************************************************************************)
(* The measurement button and the fit on their own: the editor stays open, *)
(* the reference curve is that of the genre dropdown.                      *)
(***************************************************************************)
NextFit ==
  \/ \E id \in GenreIds, content \in CurveContents : GenreChanged(id, content)
  \/ \E lv \in BandLevels(JobLevels) : TimerSnapshot(lv)
  \/ \E g \in InputGains : InputGainChanged(g)
  \/ MeasureButtonClicked

SpecFit == InitJob /\ [][NextFit]_vars

\* C13: a fit asked for with no snapshot in the measurement buffer (the
\* averaged spectrum is empty) or with no reference curve is refused and
\* changes nothing: targetCorrections, hasTargetCorrections, the band
\* gains, the band Qs and the input gain keep their values.
C13_RefusedFitChangesNothing ==
  [][(MeasureButtonClicked /\ measuring
        /\ (getAveragedSpectrum(measurementBuffer) = << >>
              \/ referenceBands = << >>))
       => /\ targetCorrections' = targetCorrections
          /\ hasTargetCorrections' = hasTargetCorrections
          /\ bandGains' = bandGains
          /\ bandQs' = bandQs
          /\ inputGain' = inputGain
          /\ lastClick' \in {"fitRefused", "noReference"}
    ]_vars

\* a measurement was stopped before its first snapshot, with a reference
\* curve loaded, the corrections of an earlier fit held and the input gain
\* moved off its default
C13_Witness ==
  /\ lastClick = "fitRefused"
  /\ measurementBuffer = << >>
  /\ referenceBands # << >>
  /\ hasTargetCorrections
  /\ targetCorrections # [i \in 1..numBands |-> 0]
  /\ inputGain # 0

\* C14: a failed load leaves the empty curve, not the one held before:
\* loadReferenceCurve with an empty file name, with a file that is empty or
\* unreadable, or with content that has no "bands" array gives the empty
\* curve whatever referenceBands was; so does the genre dropdown when the
\* genre's file fails; a job whose file has no reader posts the empty list,
\* and the callback puts that list in the place of the reference.
C14_FailedLoadEmptiesReference ==
  /\ [](\A file \in CurveFiles :
          (file.name = "" \/ file.content # "bands")
             => loadReferenceCurve(referenceBands, file) = << >>)
  /\ [][/\ (\E id \in GenreIds \ {0}, content \in CurveContents \ {"bands"} :
               GenreChanged(id, content))
             => referenceBands' = << >>
        /\ \A k \in 1..NumPoolThreads :
             (JobAnalyse(k) /\ poolRunning[k].file = "unreadable")
               => messageQueue' =
                    Append(messageQueue,
                           [safe |-> poolRunning[k].safe, bands |-> << >>])
        /\ (CompletionCallback /\ ~SafeIsNull(Head(messageQueue).safe)
              /\ Head(messageQueue).bands = << >>)
             => referenceBands' = << >>
       ]_vars

\* the file of the selected genre could not be loaded: a genre is
\* selected and there is no curve, while the corrections fitted to an
\* earlier curve are still held
C14_Witness ==
  /\ selectedGenreId # 0
  /\ referenceBands = << >>
  /\ hasTargetCorrections
  /\ targetCorrections # [i \in 1..numBands |-> 0]

(***************************************************************************)
(* startAutoEqAsync: the fit as a job on autoEqPool (one thread).  A       *)
(* request is dropped while autoEqRunning is set; otherwise the flag is    *)
(* set and a job with copies of the averaged spectrum and of the reference *)
(* curve is queued; the job fits the copies and posts the result; the      *)
(* message thread stores the result and clears the flag.                   *)
(***************************************************************************)
AutoEqStartAllowed_Always == TRUE

\* the request is dropped while a fit is running
AutoEqStartAllowed == ~autoEqRunning

\* what the handlers of the editor's own widgets leave alone
widgetFrame == << postVars, preVars, spectrumArray, audioPc, timerPc,
                  averaged, refInput, refStage, out, bandGains, bandQs,
                  preEQSpectrumArray, measurementBuffer, measuring,
                  selectedGenreId, inputGain, measureButtonEnabled,
                  referenceBands, editorsCreated, editorAlive,
                  referenceAnalysisRunning, referenceFileChooser, poolQueue,
                  poolRunning, messageQueue, lastCallback, calcVars >>

\* a fit is requested
StartAutoEqAsync ==
  /\ editorAlive
  /\ IF AutoEqStartAllowed
       THEN /\ autoEqRunning' = TRUE
            /\ autoEqPool' =
                 Append(autoEqPool,
                        [ref |-> referenceBands,
                         spectrum |->
                           InCentiDb(getAveragedSpectrum(measurementBuffer))])
            /\ lastClick' = "fitStarted"
       ELSE /\ UNCHANGED << autoEqRunning, autoEqPool >>
            /\ lastClick' = "fitIgnored"
  /\ UNCHANGED << widgetFrame, autoEqPosted, targetCorrections,
                  hasTargetCorrections >>

\* the pool thread fits the copies of the first job and posts the result
AutoEqJobRun ==
  /\ autoEqPool # << >>
  /\ autoEqPosted' =
       Append(autoEqPosted,
              LET job == Head(autoEqPool)
              IN IF validateAutoEQData(job.ref, job.spectrum)
                   THEN [fitted |-> TRUE,
                         corrections |->
                           autoEqCorrections(job.ref, job.spectrum)]
                   ELSE [fitted |-> FALSE, corrections |-> << >>])
  /\ autoEqPool' = Tail(autoEqPool)
  /\ UNCHANGED << widgetFrame, autoEqRunning, targetCorrections,
                  hasTargetCorrections, lastClick >>

\* the message thread stores the posted result and clears the flag
AutoEqCompleted ==
  /\ autoEqPosted # << >>
  /\ editorAlive
  /\ autoEqPosted' = Tail(autoEqPosted)
  /\ autoEqRunning' = FALSE
  /\ IF Head(autoEqPosted).fitted
       THEN /\ targetCorrections' = Head(autoEqPosted).corrections
            /\ hasTargetCorrections' = TRUE
       ELSE UNCHANGED << targetCorrections, hasTargetCorrections >>
  /\ UNCHANGED << widgetFrame, autoEqPool, lastClick >>

NextAutoEq ==
  \/ \E id \in GenreIds, content \in CurveContents : GenreChanged(id, content)
  \/ \E lv \in BandLevels(JobLevels) : TimerSnapshot(lv)
  \/ MeasureButtonClicked
  \/ StartAutoEqAsync
  \/ AutoEqJobRun
  \/ AutoEqCompleted

SpecAutoEq == InitJob /\ [][NextAutoEq]_vars

\* C15: a fit requested while a fit is running is dropped: at most one fit
\* is queued, running or posted at any time, and only while autoEqRunning
\* is set; a request made while the flag is set leaves the flag, the pool,
\* the posted results and the corrections as they are; and the result
\* stored for a fit is the one of the inputs copied when it was started.
C15_OneFitInFlight ==
  /\ [](/\ Len(autoEqPool) + Len(autoEqPosted) <= 1
        /\ (Len(autoEqPool) + Len(autoEqPosted) = 1 => autoEqRunning))
  /\ [][/\ (StartAutoEqAsync /\ autoEqRunning)
             => /\ UNCHANGED << autoEqRunning, autoEqPool, autoEqPosted,
                                targetCorrections, hasTargetCorrections >>
                /\ lastClick' = "fitIgnored"
        /\ (StartAutoEqAsync /\ ~autoEqRunning)
             => /\ autoEqPool' = << [ref |-> referenceBands,
                                     spectrum |-> InCentiDb(
                                       getAveragedSpectrum(measurementBuffer))] >>
                /\ autoEqRunning'
        /\ (AutoEqJobRun /\ validateAutoEQData(Head(autoEqPool).ref,
                                               Head(autoEqPool).spectrum))
             => autoEqPosted' =
                  << [fitted |-> TRUE,
                      corrections |->
                        autoEqCorrections(Head(autoEqPool).ref,
                                          Head(autoEqPool).spectrum)] >>
       ]_vars

\* a second fit was requested and dropped while the first, started with the
\* curve of the genre, was still on the pool and the genre's curve had
\* gone in the meantime
C15_Witness ==
  /\ lastClick = "fitIgnored"
  /\ autoEqRunning
  /\ Len(autoEqPool) = 1
  /\ autoEqPool[1].ref # << >>
  /\ autoEqPool[1].spectrum # << >>
  /\ referenceBands = << >>

\* the mean offset applyAutoEQ computes for the loudness, in tenths of a dB
makeupGain(ref, spectrum) ==
  RoundDiv(calculateMeanOffset(
             calculateResidualsAligned(
               ref, spectrum, computeReferenceViewOffsetDb(ref, spectrum))),
           10)

\* C16: the makeup gain of a fit is added to the input gain: after a fit
\* the input gain is the gain before the fit plus the computed offset,
\* limited to -24..24 dB.
C16_FitAddsMakeupGain ==
  [][(MeasureButtonClicked /\ lastClick' = "fitApplied")
       => inputGain' =
            jlimit(-240, 240,
                   inputGain
                     + makeupGain(referenceBands,
                                  InCentiDb(getAveragedSpectrum(
                                              measurementBuffer))))
    ]_vars

\* C16 (what the code does): a fit stores the corrections and leaves the
\* input gain, the band gains and the band Qs as they were.
C16_FitKeepsInputGain ==
  [][(MeasureButtonClicked /\ lastClick' = "fitApplied")
       => /\ inputGain' = inputGain
          /\ bandGains' = bandGains
          /\ bandQs' = bandQs
          /\ hasTargetCorrections'
          /\ targetCorrections' =
               autoEqCorrections(referenceBands,
                                 InCentiDb(getAveragedSpectrum(
                                             measurementBuffer)))
    ]_vars

\* a fit was made with the input gain moved to +24 dB beforehand
C16_Witness ==
  /\ lastClick = "fitApplied"
  /\ inputGain = 240
  /\ hasTargetCorrections
  /\ makeupGain(referenceBands,
                InCentiDb(getAveragedSpectrum(measurementBuffer))) # 0

(***************************************************************************)
(* The functions of the fit on drawn arguments.  A reference curve has a   *)
(* band for each of the 31 frequencies; a measured spectrum has a point    *)
(* for each of them or, at a low sample rate, for the first of them.       *)
(* Sampled curves have NumCurvePoints points at frequencies of the list.   *)
(***************************************************************************)
NumCurvePoints == 3

\* a reference curve with one median up to band 15 and one above
RefShape(a, b) ==
  Vector([ i \in 1..numBands |->
             LET m == IF i <= 15 THEN a ELSE b
             IN [freq |-> eqFrequencies[i], p10 |-> m - 300, median |-> m,
                 p90 |-> m + 300] ])

\* a spectrum of n points with one level up to band 15 and one above
SpectrumShape(a, b, n) ==
  Vector([ i \in 1..n |->
             [frequency |-> thirdOctaveCenterFreqs[i],
              level |-> IF i <= 15 THEN a ELSE b] ])

\* the drawn spectra: full or cut short at the top, with two levels below
\* the gate and one above, in hundredths of a dB
DrawnSpectra ==
  { SpectrumShape(a, b, n) :
      a \in {-14000, -13500, -6000}, b \in {-14000, -13500, -6000},
      n \in {29, 31} }

\* the distance between neighbouring points of a sampled curve in the
\* frequency list (two steps of a third: the point between two neighbours
\* is their geometric mean where the nominal frequencies allow it)
CurveStep == 6

\* the sampled curves: none, or NumCurvePoints points starting at the 4th,
\* 8th or 14th frequency of the list
DrawnCurves ==
  { << >> } \cup
  { Vector([ i \in 1..NumCurvePoints |->
               [frequency |-> eqFrequencies[start + (i - 1) * CurveStep],
                level |-> levels[i]] ]) :
      start \in { c \in {4, 8, 14} :
                    c + (NumCurvePoints - 1) * CurveStep <= numBands },
      levels \in [1..NumCurvePoints -> {-6000, -2000}] }

\* the curve as reference bands
AsReference(pts) ==
  Vector([ i \in 1..Len(pts) |->
             [freq |-> pts[i].frequency, p10 |-> pts[i].level - 300,
              median |-> pts[i].level, p90 |-> pts[i].level + 300] ])

(***************************************************************************)
(* updateSpectrumArray / updatePreEQSpectrumArray: the band loop.  The two *)
(* functions have the same text, one on the post-EQ members and one on the *)
(* pre-EQ members.  The band magnitudes of the hop are an input (bandDb);  *)
(* frequencies are in tenths of a Hz, the sample rate is in Hz.            *)
(***************************************************************************)
\* std::pow(2.0f, 1.0f / 6.0f), in thousandths
bandwidthFactor == 1122
\* samples per FFT frame in the source
fftSize == 4096
\* gueltig: 0..(fftSize/2 - 1)
maxBin == (fftSize \div 2) - 1

lowerFreq(centerFreq) == (centerFreq * 1000) \div bandwidthFactor

\* std::min(centerFreq * bandwidthFactor, sampleRate / 2)
upperFreq(centerFreq, sampleRate) ==
  MinOf({ (centerFreq * bandwidthFactor) \div 1000, sampleRate * 5 })

\* jlimit(1, maxBin, floor(lowerFreq / binWidth)), binWidth =
\* sampleRate / fftSize
lowerBin(centerFreq, sampleRate) ==
  jlimit(1, maxBin, (lowerFreq(centerFreq) * fftSize) \div (10 * sampleRate))

\* jlimit(1, maxBin, ceil(upperFreq / binWidth))
upperBin(centerFreq, sampleRate) ==
  jlimit(1, maxBin,
         (upperFreq(centerFreq, sampleRate) * fftSize + 10 * sampleRate - 1)
           \div (10 * sampleRate))

\* for (float centerFreq : thirdOctaveCenterFreqs): break at the first band
\* whose lower edge is at or above sampleRate / 2, continue past a band
\* without bins, push_back otherwise
RECURSIVE bandLoop(_, _, _, _)
bandLoop(array, i, sampleRate, bandDb) ==
  IF i > Len(thirdOctaveCenterFreqs) THEN array
  ELSE IF lowerFreq(thirdOctaveCenterFreqs[i]) >= sampleRate * 5 THEN array
  ELSE IF upperBin(thirdOctaveCenterFreqs[i], sampleRate)
            < lowerBin(thirdOctaveCenterFreqs[i], sampleRate)
       THEN bandLoop(array, i + 1, sampleRate, bandDb)
  ELSE bandLoop(Append(array, [frequency |-> thirdOctaveCenterFreqs[i],
                               level |-> bandDb[i]]),
                i + 1, sampleRate, bandDb)

\* (variant: the points of the hop are appended to those of the last one)
updateSpectrumArray_NoClear(array, sampleRate, bandDb) ==
  bandLoop(array, 1, sampleRate, bandDb)

\* spectrumArray.clear(); then the band loop
updateSpectrumArray(array, sampleRate, bandDb) ==
  bandLoop(<< >>, 1, sampleRate, bandDb)

\* preEQSpectrumArray.clear(); then the band loop
updatePreEQSpectrumArray(array, sampleRate, bandDb) ==
  bandLoop(<< >>, 1, sampleRate, bandDb)

(***************************************************************************)
(* peakingEQComplex and calculateTotalMagnitude.  A float is a finite      *)
(* number in thousandths, an infinity or NaN; the arithmetic follows IEEE  *)
(* 754 for the special values (x/0, inf - inf, inf/inf, 0 * inf), without  *)
(* signed zeros and without overflow of finite values.  Sine and cosine    *)
(* are evaluated where they are exact: the model takes angles that are     *)
(* whole quarter turns (frequencies that are multiples of sampleRate / 4). *)
(***************************************************************************)
Fin(n) == [k |-> "fin", v |-> n]
Inf(sign) == [k |-> "inf", v |-> sign]
NaN == [k |-> "nan", v |-> 0]

Sign(n) == IF n < 0 THEN -1 ELSE 1

XNeg(a) == IF a.k = "nan" THEN NaN ELSE [a EXCEPT !.v = 0 - a.v]

XAdd(a, b) ==
  IF a.k = "nan" \/ b.k = "nan" THEN NaN
  ELSE IF a.k = "inf" /\ b.k = "inf"
       THEN IF a.v = b.v THEN a ELSE NaN
  ELSE IF a.k = "inf" THEN a
  ELSE IF b.k = "inf" THEN b
  ELSE Fin(a.v + b.v)

XSub(a, b) == XAdd(a, XNeg(b))

XMul(a, b) ==
  IF a.k = "nan" \/ b.k = "nan" THEN NaN
  ELSE IF a.k = "inf" \/ b.k = "inf"
       THEN IF a.v = 0 \/ b.v = 0 THEN NaN
            ELSE Inf(Sign(a.v) * Sign(b.v))
  ELSE Fin(RoundDiv(a.v * b.v, 1000))

XDiv(a, b) ==
  IF a.k = "nan" \/ b.k = "nan" THEN NaN
  ELSE IF a.k = "inf"
       THEN IF b.k = "inf" THEN NaN ELSE Inf(a.v * Sign(b.v))
  ELSE IF b.k = "inf" THEN Fin(0)
  ELSE IF b.v = 0 THEN IF a.v = 0 THEN NaN ELSE Inf(Sign(a.v))
  ELSE Fin(RoundDiv(a.v * 1000, b.v))

\* the angle 2 pi f / sampleRate in quarter turns
QuarterTurns(f, sampleRate) == ((4 * f) \div sampleRate) % 4

cosQuarter(q) == Fin(<< 1000, 0, -1000, 0 >>[(q % 4) + 1])
sinQuarter(q) == Fin(<< 0, 1000, 0, -1000 >>[(q % 4) + 1])

\* std::pow(10.0f, gainDb / 40.0f) for the gains of the model (tenths of a
\* dB), in thousandths
GainFactor(gainDb) ==
  CASE gainDb = 120 -> Fin(1995)
    [] gainDb = -120 -> Fin(501)
    [] gainDb = 0 -> Fin(1000)

\* complex numbers
Cx(re, im) == [re |-> re, im |-> im]
CxAdd(x, y) == Cx(XAdd(x.re, y.re), XAdd(x.im, y.im))
\* float * complex
CxScale(c, x) == Cx(XMul(c, x.re), XMul(c, x.im))
CxDiv(x, y) ==
  LET d == XAdd(XMul(y.re, y.re), XMul(y.im, y.im))
  IN Cx(XDiv(XAdd(XMul(x.re, y.re), XMul(x.im, y.im)), d),
        XDiv(XSub(XMul(x.im, y.re), XMul(x.re, y.im)), d))

\* the greatest r with r * r <= n
Isqrt(n) ==
  LET RECURSIVE search(_, _)
      search(lo, hi) ==
        IF lo >= hi THEN lo
        ELSE LET mid == (lo + hi + 1) \div 2
             IN IF mid * mid <= n THEN search(mid, hi)
                ELSE search(lo, mid - 1)
  IN search(0, 46000)

\* std::abs of a complex number
CxAbs(x) ==
  IF x.re.k = "inf" \/ x.im.k = "inf" THEN Inf(1)
  ELSE IF x.re.k = "nan" \/ x.im.k = "nan" THEN NaN
  ELSE Fin(Isqrt(x.re.v * x.re.v + x.im.v * x.im.v))

\* 20.0f * std::log10(x) for x >= 0, as the whole dB at or below it, in
\* tenths of a dB
Log10Times20(x) ==
  IF x.k = "nan" THEN NaN
  ELSE IF x.k = "inf" THEN Inf(1)
  ELSE IF x.v = 0 THEN Inf(-1)
  ELSE LET p == x.v * x.v
           RECURSIVE down(_)
           down(j) == IF p * 100 >= PowerOfMinusDb(j) \/ j >= 60
                      THEN j ELSE down(j + 1)
           RECURSIVE up(_)
           up(j) == IF j >= 30
                       \/ (PowerOfMinusDb(j + 1) \div 10000) * (p \div 100)
                            < 100000000
                    THEN j ELSE up(j + 1)
       IN IF x.v < 1000 THEN Fin(0 - 10 * down(1)) ELSE Fin(10 * up(0))

\* peakingEQComplex(freq, f0, Q, gainDb, sampleRate); Q in hundredths,
\* gainDb in tenths of a dB, frequencies and sample rate in Hz
peakingEQComplex(freq, f0, Q, gainDb, sampleRate) ==
  LET A == GainFactor(gainDb)
      w0 == QuarterTurns(f0, sampleRate)
      w == QuarterTurns(freq, sampleRate)
      alpha == XDiv(sinQuarter(w0), Fin(2 * Q * 10))
      a0 == XAdd(Fin(1000), XDiv(alpha, A))
      b0 == XDiv(XAdd(Fin(1000), XMul(alpha, A)), a0)
      b1 == XDiv(XMul(Fin(-2000), cosQuarter(w0)), a0)
      b2 == XDiv(XSub(Fin(1000), XMul(alpha, A)), a0)
      a1 == XDiv(XMul(Fin(-2000), cosQuarter(w0)), a0)
      a2 == XDiv(XSub(Fin(1000), XDiv(alpha, A)), a0)
      expMinusJw == Cx(cosQuarter(4 - w), sinQuarter(4 - w))
      expMinus2Jw == Cx(cosQuarter(8 - 2 * w), sinQuarter(8 - 2 * w))
      num == CxAdd(CxAdd(Cx(b0, Fin(0)), CxScale(b1, expMinusJw)),
                   CxScale(b2, expMinus2Jw))
      den == CxAdd(CxAdd(Cx(Fin(1000), Fin(0)), CxScale(a1, expMinusJw)),
                   CxScale(a2, expMinus2Jw))
  IN CxDiv(num, den)

\* calculateTotalMagnitude at one frequency point, for band gains (tenths
\* of a dB) and Qs (hundredths) as the sliders and knobs give them: the sum
\* over the bands with a gain of more than 0.01 dB
calculateTotalMagnitude(freq, gains, qs, rate) ==
  LET sampleRate == IF rate <= 0 THEN 48000 ELSE rate
      RECURSIVE total(_)
      total(bandIdx) ==
        IF bandIdx = 0 THEN Fin(0)
        ELSE IF gains[bandIdx] # 0
             THEN XAdd(total(bandIdx - 1),
                       Log10Times20(CxAbs(peakingEQComplex(
                         freq, eqFrequencies[bandIdx] \div 10, qs[bandIdx],
                         gains[bandIdx], sampleRate))))
        ELSE total(bandIdx - 1)
  IN total(numBands)

\* the band of the model whose centre is a quarter of the sample rate
\* 32 kHz: 8 kHz
quarterBand == 27

\* gains and Qs with one band set
OneBand(band, value, default) ==
  [i \in 1..numBands |-> IF i = band THEN value ELSE default]

\* sample rates of the host, in Hz (0: not yet prepared)
HopSampleRates == {0, 8000, 22050, 44100, 96000}

CalcInputs ==
  [kind : {"hop"}] \cup
  [kind : {"magnitude"}, freq : {8000, 16000},
   gains : { OneBand(quarterBand, g, 0) : g \in {-120, 0, 120} },
   qs : { OneBand(quarterBand, q, 432) : q \in {-50, 0, 30, 432} },
   sampleRate : {32000}] \cup
  [kind : {"magnitude"}, freq : {8000}, gains : {OneBand(quarterBand, 0, 0)},
   qs : {OneBand(quarterBand, 432, 432)}, sampleRate : {0}] \cup
  [kind : {"residuals"},
   ref : { RefShape(a, b) : a \in {-6000, -2000}, b \in {-6000, -2000} },
   spectrum : DrawnSpectra]
    \cup [kind : {"sample"}, pts : DrawnCurves,
          fHz : { eqFrequencies[i] : i \in 1..numBands },
          fallbackDb : {minDb}]

InitCalc ==
  /\ InitProcessor
  /\ InitReference
  /\ InitEditor
  /\ selectedGenreId = 0
  /\ targetCorrections = [i \in 1..numBands |-> 0]
  /\ inputGain = 0
  /\ bandGains = [i \in 1..numBands |-> 0]
  /\ bandQs = [i \in 1..numBands |-> 432]
  /\ measureButtonEnabled = FALSE
  /\ autoEqRunning = FALSE
  /\ autoEqPool = << >>
  /\ autoEqPosted = << >>
  /\ calcInput \in CalcInputs
  /\ calcOutput = [stage |-> "none"]

calcFrame == << processorVars, refVars, editorVars, selectedGenreId,
                targetCorrections, paramVars, measureButtonEnabled,
                autoEqVars, calcInput >>

\* computeReferenceViewOffsetDb(averagedSpectrum)
CalcOffset ==
  /\ calcInput.kind = "residuals"
  /\ calcOutput.stage = "none"
  /\ calcOutput' =
       [stage |-> "offset",
        offsetDb |-> computeReferenceViewOffsetDb(calcInput.ref,
                                                  calcInput.spectrum)]
  /\ UNCHANGED calcFrame

\* calculateResidualsAligned(averagedSpectrum, offsetDb)
CalcResiduals ==
  /\ calcInput.kind = "residuals"
  /\ calcOutput.stage = "offset"
  /\ calcOutput' =
       [stage |-> "residuals", offsetDb |-> calcOutput.offsetDb,
        residuals |-> calculateResidualsAligned(
                        calcInput.ref, calcInput.spectrum,
                        calcOutput.offsetDb)]
  /\ UNCHANGED calcFrame

\* calculateResidualsAligned with a given offset
CalcResidualsAt(offsetDb) ==
  /\ calcInput.kind = "residuals"
  /\ calcOutput.stage = "none"
  /\ calcOutput' =
       [stage |-> "residuals", offsetDb |-> offsetDb,
        residuals |-> calculateResidualsAligned(
                        calcInput.ref, calcInput.spectrum, offsetDb)]
  /\ UNCHANGED calcFrame

\* the two samplers on the same curve
CalcSample ==
  /\ calcInput.kind = "sample"
  /\ calcOutput.stage = "none"
  /\ calcOutput' =
       [stage |-> "sampled",
        spectrum |-> sampleLogInterpolatedSpectrum(
                       calcInput.pts, calcInput.fHz, calcInput.fallbackDb),
        reference |-> sampleLogInterpolatedReferenceMedian(
                        AsReference(calcInput.pts), calcInput.fHz,
                        calcInput.fallbackDb)]
  /\ UNCHANGED calcFrame

\* what an update of a spectrum array leaves alone
hopFrame == << postVars, preVars, measVars, audioPc, timerPc, averaged,
               refVars, editorVars, selectedGenreId, targetCorrections,
               paramVars, measureButtonEnabled, autoEqVars, calcInput >>

\* processorRef.updateSpectrumArray(processorRef.getSampleRate()) on a hop
\* whose bands all have the given level
CalcUpdateSpectrumArray(sampleRate, level) ==
  /\ calcInput.kind = "hop"
  /\ spectrumArray' =
       updateSpectrumArray(spectrumArray, sampleRate,
                           [i \in 1..numBands |-> level])
  /\ calcOutput' = [stage |-> "hop", stream |-> "post",
                    sampleRate |-> sampleRate, level |-> level,
                    previousSize |-> Len(spectrumArray)]
  /\ UNCHANGED << preEQSpectrumArray, hopFrame >>

\* processorRef.updatePreEQSpectrumArray(processorRef.getSampleRate())
CalcUpdatePreEQSpectrumArray(sampleRate, level) ==
  /\ calcInput.kind = "hop"
  /\ preEQSpectrumArray' =
       updatePreEQSpectrumArray(preEQSpectrumArray, sampleRate,
                                [i \in 1..numBands |-> level])
  /\ calcOutput' = [stage |-> "hop", stream |-> "pre",
                    sampleRate |-> sampleRate, level |-> level,
                    previousSize |-> Len(preEQSpectrumArray)]
  /\ UNCHANGED << spectrumArray, hopFrame >>

\* calculateTotalMagnitude(frequencies, 1)
CalcTotalMagnitude ==
  /\ calcInput.kind = "magnitude"
  /\ calcOutput.stage = "none"
  /\ calcOutput' =
       [stage |-> "magnitude",
        totalMagnitudeDB |->
          calculateTotalMagnitude(calcInput.freq, calcInput.gains,
                                  calcInput.qs, calcInput.sampleRate)]
  /\ UNCHANGED calcFrame

NextCalc ==
  \/ CalcTotalMagnitude
  \/ \E sampleRate \in HopSampleRates, level \in Levels :
       CalcUpdateSpectrumArray(sampleRate, level)
  \/ \E sampleRate \in HopSampleRates, level \in Levels :
       CalcUpdatePreEQSpectrumArray(sampleRate, level)
  \/ CalcOffset
  \/ CalcResiduals
  \/ \E offsetDb \in {0, -3600} : CalcResidualsAt(offsetDb)
  \/ CalcSample

SpecCalc == InitCalc /\ [][NextCalc]_vars

HasResiduals ==
  calcInput.kind = "residuals" /\ calcOutput.stage = "residuals"

\* C17: for a reference curve with a flat median of -60 dB and a measured
\* spectrum flat at -60 dB, the alignment offset of
\* computeReferenceViewOffsetDb and calculateResidualsAligned give 31
\* residuals, one for each EQ frequency, each within 0.5 dB of 0.
C17_FlatAgainstFlat ==
  (/\ HasResiduals
   /\ calcInput.ref = RefShape(-6000, -6000)
   /\ calcInput.spectrum = SpectrumShape(-6000, -6000, numBands)
   /\ calcOutput.offsetDb =
        computeReferenceViewOffsetDb(calcInput.ref, calcInput.spectrum))
    => /\ Len(calcOutput.residuals) = 31
       /\ Len(calcOutput.residuals) = Len(eqFrequencies)
       /\ \A i \in 1..Len(calcOutput.residuals) :
            /\ calcOutput.residuals[i] >= -50
            /\ calcOutput.residuals[i] <= 50

\* the residuals of the flat curve against the flat spectrum, with the
\* offset the editor computes for them
C17_Witness ==
  /\ HasResiduals
  /\ calcInput.ref = RefShape(-6000, -6000)
  /\ calcInput.spectrum = SpectrumShape(-6000, -6000, numBands)
  /\ calcOutput.offsetDb = 0
  /\ calcOutput.offsetDb =
       computeReferenceViewOffsetDb(calcInput.ref, calcInput.spectrum)

\* the edge-fade weight of an EQ frequency, in thousandths: 0 at 20 Hz,
\* rising by 0.05 per Hz to 1 at 40 Hz, 1 up to 16 kHz, falling by 0.00025
\* per Hz to 0 at 20 kHz
FadeWeight(f) ==
  IF f < 400 THEN (f - 200) * 5
  ELSE IF f > 160000 THEN (200000 - f) \div 40
  ELSE 1000

\* the level of the spectrum's own point for band i, the last point's for
\* the bands above a short spectrum
PointLevel(spectrum, i) ==
  spectrum[IF i <= Len(spectrum) THEN i ELSE Len(spectrum)].level

\* C18: each residual is the difference of the band times the edge-fade
\* weight of its frequency: weight 1 from 40 Hz to 16 kHz, 0 at 20 Hz, 0.25
\* at 25 Hz, 0.575 at 31.5 Hz, 0 at 20 kHz; so the residuals of the 20 Hz
\* band and of the 20 kHz band are 0 whatever the spectrum, the reference
\* curve and the offset.
C18_EdgeFade ==
  HasResiduals
    => /\ calcOutput.residuals[1] = 0
       /\ calcOutput.residuals[numBands] = 0
       /\ \A i \in 1..numBands :
            /\ edgeWeight(eqFrequencies[i]) = FadeWeight(eqFrequencies[i])
            /\ (eqFrequencies[i] >= 400 /\ eqFrequencies[i] <= 160000)
                 => FadeWeight(eqFrequencies[i]) = 1000
            /\ calcOutput.residuals[i] =
                 RoundDiv((calcInput.ref[i].median
                             - (IF PointLevel(calcInput.spectrum, i) < gateDb
                                  THEN gateDb
                                  ELSE PointLevel(calcInput.spectrum, i))
                             - calcOutput.offsetDb)
                            * FadeWeight(eqFrequencies[i]),
                          1000)

\* residuals of a spectrum 40 dB below the reference at both ends, with no
\* offset: the bands next to the edges have residuals, the edges have none
C18_Witness ==
  /\ HasResiduals
  /\ calcOutput.offsetDb = 0
  /\ calcInput.ref[1].median - calcInput.spectrum[1].level = 4000
  /\ Len(calcInput.spectrum) = numBands
  /\ calcInput.ref[numBands].median
       - calcInput.spectrum[numBands].level = 4000
  /\ calcOutput.residuals[1] = 0
  /\ calcOutput.residuals[2] = 1000
  /\ calcOutput.residuals[3] = 2300
  /\ calcOutput.residuals[4] = 4000
  /\ calcOutput.residuals[numBands - 1] = 4000
  /\ calcOutput.residuals[numBands] = 0

\* the two spectra have the same points and differ only where both levels
\* are below the gate
SameAboveGate(s1, s2) ==
  /\ Len(s1) = Len(s2)
  /\ \A i \in 1..Len(s1) :
       /\ s1[i].frequency = s2[i].frequency
       /\ \/ s1[i].level = s2[i].level
          \/ s1[i].level < gateDb /\ s2[i].level < gateDb

\* C19: measured levels below the gate (minDb + 10 dB = -130 dB) are
\* raised to the gate before the offset is added and the difference taken:
\* with the same offset, a spectrum that differs from the measured one only
\* in levels below the gate gives the same residuals, and no residual is
\* above (reference - gate - offset) times the edge weight.
C19_NoiseGate ==
  HasResiduals
    => /\ \A other \in DrawnSpectra :
            SameAboveGate(calcInput.spectrum, other)
              => calculateResidualsAligned(calcInput.ref, other,
                                           calcOutput.offsetDb)
                   = calcOutput.residuals
       /\ \A i \in 1..numBands :
            calcOutput.residuals[i]
              <= RoundDiv((calcInput.ref[i].median - gateDb
                             - calcOutput.offsetDb)
                            * FadeWeight(eqFrequencies[i]),
                          1000)

\* residuals of a spectrum at -140 dB up to band 15 and at -60 dB above:
\* the gated bands have the residual of a level of -130 dB
C19_Witness ==
  /\ HasResiduals
  /\ calcOutput.offsetDb = 0
  /\ calcInput.spectrum = SpectrumShape(-14000, -6000, numBands)
  /\ calcInput.ref = RefShape(-6000, -6000)
  /\ calcOutput.residuals[10] = -6000 - gateDb
  /\ calcOutput.residuals[20] = 0

\* C20: the two samplers on a curve of three or more points with ascending
\* frequencies: at the frequency of a point they give the point's level;
\* below the first point the first level and above the last point the last
\* level; at the geometric mean of two neighbouring points of equal level
\* that level; on the empty curve the fallback value.
C20_LogInterpolation ==
  (calcInput.kind = "sample" /\ calcOutput.stage = "sampled")
    => LET pts == calcInput.pts
           f == calcInput.fHz
           n == Len(pts)
       IN /\ calcOutput.reference = calcOutput.spectrum
          /\ n = 0 => calcOutput.spectrum = calcInput.fallbackDb
          /\ n > 0 =>
               /\ \A i \in 1..n :
                    pts[i].frequency = f => calcOutput.spectrum = pts[i].level
               /\ f < pts[1].frequency => calcOutput.spectrum = pts[1].level
               /\ f > pts[n].frequency => calcOutput.spectrum = pts[n].level
               /\ \A i \in 1..(n - 1) :
                    (/\ pts[i].level = pts[i + 1].level
                     /\ 2 * log10Of(f) = log10Of(pts[i].frequency)
                                           + log10Of(pts[i + 1].frequency))
                      => calcOutput.spectrum = pts[i].level

\* a sample at the geometric mean of the second and the third point, which
\* have one level, while the first point has another
C20_Witness ==
  /\ calcInput.kind = "sample"
  /\ calcOutput.stage = "sampled"
  /\ Len(calcInput.pts) >= 3
  /\ calcInput.pts[1].level # calcInput.pts[2].level
  /\ calcInput.pts[2].level = calcInput.pts[3].level
  /\ 2 * log10Of(calcInput.fHz) = log10Of(calcInput.pts[2].frequency)
                                    + log10Of(calcInput.pts[3].frequency)
  /\ calcOutput.spectrum = calcInput.pts[2].level

(***************************************************************************)
(* processBlock with its filters.  The block's position is audioPc; the    *)
(* coefficients of the two filter banks and the filters applied so far in  *)
(* the block are kept in calcOutput, the channel count of the bus and the  *)
(* sample rate in calcInput.  A filter application is recorded as what     *)
(* ran on which channel: the bank, the band and the coefficients it had.   *)
(***************************************************************************)
\* updateFilters: the peak filter of every band from its gain and Q
\* parameters, the same for both banks; nothing without a sample rate
updateFilters(coefficients, sampleRate, gains, qs) ==
  IF sampleRate <= 0 THEN coefficients
  ELSE [i \in 1..numBands |->
          [frequency |-> thirdOctaveCenterFreqs[i], Q |-> qs[i],
           gainDB |-> gains[i]]]

\* the filter that processes the channel's block for one band
\* (bands and channels from 0, as in the source)
filterFor(channel, band, left, right) ==
  IF channel = 0
  THEN << [channel |-> channel, bank |-> "leftFilters", band |-> band,
           coefficients |-> left[band + 1]] >>
  ELSE IF channel = 1
  THEN << [channel |-> channel, bank |-> "rightFilters", band |-> band,
           coefficients |-> right[band + 1]] >>
  ELSE << >>

\* (variant: every channel runs through the left bank)
applyFilters_LeftOnly(numChannels, left, right) ==
  LET RECURSIVE bands(_, _)
      bands(channel, band) ==
        IF band >= numBands THEN << >>
        ELSE filterFor(0, band, left, right) \o bands(channel, band + 1)
      RECURSIVE channels(_)
      channels(channel) ==
        IF channel >= numChannels THEN << >>
        ELSE bands(channel, 0) \o channels(channel + 1)
  IN channels(0)

\* for (channel ...) for (i = 0; i < numBands; ++i): the filters in the
\* order they run
applyFilters(numChannels, left, right) ==
  LET RECURSIVE bands(_, _)
      bands(channel, band) ==
        IF band >= numBands THEN << >>
        ELSE filterFor(channel, band, left, right)
               \o bands(channel, band + 1)
      RECURSIVE channels(_)
      channels(channel) ==
        IF channel >= numChannels THEN << >>
        ELSE bands(channel, 0) \o channels(channel + 1)
  IN channels(0)

\* mono or stereo (isBusesLayoutSupported), at a sample rate the host has
\* prepared the plugin with
BlockInputs ==
  [kind : {"processBlock"}, numChannels : {1, 2}, sampleRate : {44100}]

\* prepareToPlay has run: both banks hold the filters of the defaults
InitBlock ==
  /\ InitProcessor
  /\ InitReference
  /\ InitEditor
  /\ selectedGenreId = 0
  /\ targetCorrections = [i \in 1..numBands |-> 0]
  /\ inputGain = 0
  /\ bandGains = [i \in 1..numBands |-> 0]
  /\ bandQs = [i \in 1..numBands |-> 432]
  /\ measureButtonEnabled = FALSE
  /\ autoEqRunning = FALSE
  /\ autoEqPool = << >>
  /\ autoEqPosted = << >>
  /\ calcInput \in BlockInputs
  /\ calcOutput =
       [stage |-> "prepared",
        leftFilters |-> updateFilters(<< >>, calcInput.sampleRate,
                                      bandGains, bandQs),
        rightFilters |-> updateFilters(<< >>, calcInput.sampleRate,
                                       bandGains, bandQs),
        applied |-> << >>]

\* processBlock is entered: updateFilters(), then the pre-EQ pushes
BlockBegin(n) ==
  /\ audioPc.phase = "idle"
  /\ audioPc' = [phase |-> "pre", sub |-> "push", left |-> n, n |-> n]
  /\ calcOutput' =
       [stage |-> "updateFilters",
        leftFilters |-> updateFilters(calcOutput.leftFilters,
                                      calcInput.sampleRate, bandGains, bandQs),
        rightFilters |-> updateFilters(calcOutput.rightFilters,
                                       calcInput.sampleRate, bandGains,
                                       bandQs),
        applied |-> << >>]
  /\ UNCHANGED << postVars, preVars, spectrumVars, measVars, timerPc,
                  averaged, refVars, editorVars, selectedGenreId,
                  targetCorrections, paramVars, measureButtonEnabled,
                  autoEqVars, calcInput >>

\* the pre-EQ pushes are done: the filter loops
BlockFilter ==
  /\ audioPc.phase = "post" /\ audioPc.sub = "push"
  /\ audioPc.left = audioPc.n
  /\ calcOutput.stage = "updateFilters"
  /\ calcOutput' =
       [calcOutput EXCEPT
          !.stage = "filtered",
          !.applied = applyFilters(calcInput.numChannels,
                                   calcOutput.leftFilters,
                                   calcOutput.rightFilters)]
  /\ UNCHANGED << processorVars, refVars, editorVars, selectedGenreId,
                  targetCorrections, paramVars, measureButtonEnabled,
                  autoEqVars, calcInput >>

\* the filters have run: the post-EQ pushes
BlockPushPost(sampleSet) ==
  /\ calcOutput.stage = "filtered"
  /\ \/ PushPostBeginCopy
     \/ \E sample \in sampleSet : PushPostEndCopy(sample)
     \/ \E sample \in sampleSet : PushPostDrop(sample)
     \/ \E sample \in sampleSet : PushPostStore(sample)

NextBlock ==
  \/ \E n \in 1..MaxBlock : BlockBegin(n)
  \/ PushPreBeginCopy
  \/ \E sample \in {0} : PushPreEndCopy(sample)
  \/ \E sample \in {0} : PushPreDrop(sample)
  \/ \E sample \in {0} : PushPreStore(sample)
  \/ BlockFilter
  \/ BlockPushPost({0})
  \/ \E requested \in {-120, 120} : BandGainChanged(1, requested)
  \/ \E requested \in {30, 1000} : BandQChanged(numBands, requested)

SpecBlock == InitBlock /\ [][NextBlock]_vars

(***************************************************************************)
(* The fit next to the parameter widgets: the band sliders and Q knobs,    *)
(* the reset button, the input-gain slider; the genre's curve loads, the   *)
(* measured spectrum is flat at one of two levels.                         *)
(***************************************************************************)
NextParams ==
  \/ \E id \in GenreIds : GenreChanged(id, "bands")
  \/ \E level \in {-100, -20} :
       TimerSnapshot([b \in 1..NumBands |-> level])
  \/ InputGainChanged(240)
  \/ MeasureButtonClicked
  \/ \E requested \in {-130, 120} : BandGainChanged(1, requested)
  \/ \E requested \in {20, 1000} : BandQChanged(numBands, requested)
  \/ ResetButtonClicked
  \/ RepeatAutoEQ

SpecParams == InitJob /\ [][NextParams]_vars

\* C21: after any sequence of fits, resets and parameter changes, each of
\* the 31 stored target corrections and each band gain is between -12 dB
\* and 12 dB and each band Q is between 0.3 and 10.
C21_RangesHold ==
  /\ Len(targetCorrections) = 31
  /\ \A i \in 1..numBands :
       /\ targetCorrections[i] >= -1200 /\ targetCorrections[i] <= 1200
       /\ bandGains[i] >= -120 /\ bandGains[i] <= 120
       /\ bandQs[i] >= 30 /\ bandQs[i] <= 1000

\* a fit was made whose corrections reach the limit, with a band gain
\* asked below its range and a Q asked below its range
C21_Witness ==
  /\ hasTargetCorrections
  /\ \E i \in 1..numBands : targetCorrections[i] = -1200
  /\ bandGains[1] = -120
  /\ bandQs[numBands] = 30

\* C26: the corrections of a fit are a function of the measurement
\* snapshots and the reference curve alone: whatever corrections were held
\* and whatever the band gains and Qs are, a fit stores the corrections of
\* the averaged snapshots against the reference curve, so a fit repeated on
\* the snapshots and the curve of the fit before it leaves the corrections
\* that fit stored.
C26_FitIsDeterministic ==
  [][(/\ lastClick' \in {"fitApplied", "fitRepeated"}
      /\ referenceBands' = referenceBands
      /\ bandGains' = bandGains
      /\ bandQs' = bandQs
      /\ MeasureButtonClicked \/ RepeatAutoEQ)
       => /\ hasTargetCorrections'
          /\ targetCorrections' =
               autoEqCorrections(referenceBands,
                                 InCentiDb(getAveragedSpectrum(
                                             measurementBuffer)))
    ]_vars

\* a fit was repeated on the snapshots of the last measurement with a band
\* gain and a Q moved off their defaults, and the corrections held are
\* those of the snapshots and the curve
C26_Witness ==
  /\ lastClick = "fitRepeated"
  /\ hasTargetCorrections
  /\ targetCorrections # [i \in 1..numBands |-> 0]
  /\ targetCorrections =
       autoEqCorrections(referenceBands,
                         InCentiDb(getAveragedSpectrum(measurementBuffer)))
  /\ bandGains[1] # 0
  /\ bandQs[numBands] # 432

\* C30: the reset button gives each of the 31 band gains the value 0 dB and
\* each of the 31 band Qs the value 4.32, and leaves the input gain, the
\* reference curve, the measurement snapshots, the measuring flag, the
\* stored corrections and hasTargetCorrections as they are.
C30_ResetFrame ==
  [][ResetButtonClicked
       => /\ bandGains' = [i \in 1..numBands |-> 0]
          /\ bandQs' = [i \in 1..numBands |-> 432]
          /\ Len(bandGains') = 31 /\ Len(bandQs') = 31
          /\ UNCHANGED << inputGain, referenceBands, measurementBuffer,
                          measuring, targetCorrections, hasTargetCorrections,
                          selectedGenreId >>
    ]_vars

\* the reset button was clicked during a measurement with snapshots taken,
\* with corrections held and the input gain moved off its default
C30_Witness ==
  /\ lastClick = "reset"
  /\ bandGains = [i \in 1..numBands |-> 0]
  /\ bandQs = [i \in 1..numBands |-> 432]
  /\ inputGain = 240
  /\ referenceBands # << >>
  /\ measuring
  /\ measurementBuffer # << >>
  /\ hasTargetCorrections
  /\ targetCorrections # [i \in 1..numBands |-> 0]

(***************************************************************************)
(* A measurement needs a genre or a reference curve                        *)
(***************************************************************************)
\* C29: through the editor's operations a measurement is active only while
\* a genre is selected or a reference curve is loaded; a step that leaves
\* neither while a measurement runs ends the measurement, and it neither
\* writes the stored corrections nor marks them as present nor counts as a
\* click that ran the fit.
C29_MeasurementNeedsTarget ==
  /\ [](measuring => (selectedGenreId # 0 \/ referenceBands # << >>))
  /\ [][(measuring /\ selectedGenreId' = 0 /\ referenceBands' = << >>)
         => /\ ~measuring'
            /\ ~measureButtonEnabled'
            /\ targetCorrections' = targetCorrections
            /\ hasTargetCorrections' => hasTargetCorrections
            /\ lastClick' = lastClick
      ]_vars

\* a measurement was started by a click and is over without a further
\* click, with no genre and no reference curve; the corrections of an
\* earlier fit are in place
C29_Witness ==
  /\ lastClick = "measuring"
  /\ ~measuring
  /\ ~measureButtonEnabled
  /\ selectedGenreId = 0
  /\ referenceBands = << >>
  /\ editorAlive

(***************************************************************************)
(* The two estimators side by side                                         *)
(***************************************************************************)
\* a step of the audio thread inside a push of the pre-EQ / post-EQ stream
PreEQPushStep == audioPc.phase = "pre" /\ audioPc' # audioPc
PostEQPushStep == audioPc.phase = "post" /\ audioPc' # audioPc
\* a step of the timer in its pre-EQ / post-EQ half: the test of the flag,
\* updatePreEQSpectrumArray / updateSpectrumArray, the reset of the flag
PreEQUpdateStep == timerPc \in {"preCheck", "preFFT"} /\ timerPc' # timerPc
PostEQUpdateStep == timerPc \in {"idle", "postFFT"} /\ timerPc' # timerPc

\* C23: a push into the pre-EQ FIFO and an update of the pre-EQ spectrum
\* leave the post-EQ FIFO, index, FFT buffer, flag and spectrum array as
\* they are; a push into the post-EQ FIFO and an update of the post-EQ
\* spectrum leave the pre-EQ FIFO, index, FFT buffer, flag and spectrum
\* array as they are.
C23_EstimatorsIndependent ==
  [][/\ (PreEQPushStep \/ PreEQUpdateStep)
        => UNCHANGED << postVars, spectrumArray >>
     /\ (PostEQPushStep \/ PostEQUpdateStep)
        => UNCHANGED << preVars, preEQSpectrumArray >>
    ]_vars

\* the pre-EQ estimator has delivered and transformed a frame and is one
\* sample into the next while the post-EQ estimator holds an untransformed
\* frame with its flag set
C23_Witness ==
  /\ preEQFftData.stage = "magnitudes"
  /\ preEQSpectrumArray # << >>
  /\ ~nextPreEQFFTBlockReady
  /\ fftData.stage = "frame"
  /\ nextFFTBlockReady
  /\ audioPc.phase = "pre"
  /\ preEQFifoIndex # fifoIndex

\* the positions at which two frames differ
Differ(f, g) == { i \in 1..FftSize : f[i] # g[i] }

\* C27: a push always completes.  With the FIFO full and the flag still set
\* the completed frame is discarded: FFT buffer and flag stay, the index
\* restarts and the new sample becomes the first of the FIFO.  With the
\* flag clear the FFT buffer receives the FIFO's samples in index order
\* (which is arrival order: a store writes at the index and advances it by
\* one), the flag is set and the new sample becomes the first of the FIFO.
C27_PushNeverBlocks ==
  /\ [](audioPc.phase # "idle" => ENABLED << AudioStep(Samples) >>_audioPc)
  /\ [][ /\ (PostEQPushStep /\ audioPc.sub = "push" /\ fifoIndex = FftSize
               /\ nextFFTBlockReady)
            => /\ UNCHANGED << fftData, nextFFTBlockReady >>
               /\ fifoIndex' = 1
               /\ Differ(fifo', fifo) \subseteq {1}
               /\ audioPc' = AfterPush(audioPc)
         /\ (PreEQPushStep /\ audioPc.sub = "push" /\ preEQFifoIndex = FftSize
               /\ nextPreEQFFTBlockReady)
            => /\ UNCHANGED << preEQFftData, nextPreEQFFTBlockReady >>
               /\ preEQFifoIndex' = 1
               /\ Differ(preEQFifo', preEQFifo) \subseteq {1}
               /\ audioPc' = AfterPush(audioPc)
         /\ (PostEQPushStep /\ audioPc.sub = "copy")
            => /\ fftData' = [stage |-> "frame", frame |-> fifo]
               /\ nextFFTBlockReady'
               /\ fifoIndex' = 1
               /\ Differ(fifo', fifo) \subseteq {1}
         /\ (PreEQPushStep /\ audioPc.sub = "copy")
            => /\ preEQFftData' = [stage |-> "frame", frame |-> preEQFifo]
               /\ nextPreEQFFTBlockReady'
               /\ preEQFifoIndex' = 1
               /\ Differ(preEQFifo', preEQFifo) \subseteq {1}
         /\ (PostEQPushStep /\ fifoIndex < FftSize)
            => /\ fifoIndex' = fifoIndex + 1
               /\ Differ(fifo', fifo) \subseteq {fifoIndex'}
         /\ (PreEQPushStep /\ preEQFifoIndex < FftSize)
            => /\ preEQFifoIndex' = preEQFifoIndex + 1
               /\ Differ(preEQFifo', preEQFifo) \subseteq {preEQFifoIndex'}
        ]_vars

\* a frame was discarded: the flag is set, the buffer holds an untouched
\* frame, the FIFO has restarted and what is left in it is not the frame of
\* the buffer
C27_Witness ==
  /\ nextFFTBlockReady
  /\ fftData.stage = "frame"
  /\ fifoIndex = 1
  /\ Differ(fifo, fftData.frame) \ {1} # {}

\* C28: both FIFO indices stay within 0..fftSize, and once a FIFO has taken
\* a sample its index stays within 1..fftSize; a push writes one position
\* below fftSize (0-based), the one the index then points behind; between
\* two blocks the two indices are equal.
C28_IndicesInRange ==
  /\ [](/\ fifoIndex \in 0..FftSize
        /\ preEQFifoIndex \in 0..FftSize
        /\ audioPc.phase = "idle" => fifoIndex = preEQFifoIndex)
  /\ [][ /\ (PostEQPushStep /\ audioPc'.sub = "push")
            => /\ fifoIndex' \in 1..FftSize
               /\ Differ(fifo', fifo) \subseteq {fifoIndex'}
         /\ (PreEQPushStep /\ audioPc'.sub = "push")
            => /\ preEQFifoIndex' \in 1..FftSize
               /\ Differ(preEQFifo', preEQFifo) \subseteq {preEQFifoIndex'}
         /\ fifoIndex >= 1 => fifoIndex' >= 1
         /\ preEQFifoIndex >= 1 => preEQFifoIndex' >= 1
        ]_vars

\* between two blocks, after blocks of different sizes, both indices have
\* wrapped round to the same position
C28_Witness ==
  /\ audioPc.phase = "idle"
  /\ fifoIndex = 1
  /\ preEQFifoIndex = 1
  /\ nextFFTBlockReady
  /\ nextPreEQFFTBlockReady

(***************************************************************************)
(* The spectrum array after a hop                                          *)
(***************************************************************************)
\* the array the last update wrote
HopArray ==
  IF calcOutput.stream = "post" THEN spectrumArray ELSE preEQSpectrumArray

\* C24: after updateSpectrumArray / updatePreEQSpectrumArray the array holds
\* the points of that hop only: at most 31 points, the i-th at the i-th
\* frequency of the band list with the level of the hop, frequencies
\* strictly increasing; a band is present exactly if its lower edge
\* (centre / 2^(1/6)) is below half the sample rate, so the first band at
\* or above Nyquist is left out together with all higher ones.
C24_ArrayIsBandPrefix ==
  calcOutput.stage = "hop" =>
    /\ Len(HopArray) <= 31
    /\ \A i \in 1..Len(HopArray) :
         HopArray[i] = [frequency |-> thirdOctaveCenterFreqs[i],
                        level |-> calcOutput.level]
    /\ \A i \in 1..(Len(HopArray) - 1) :
         HopArray[i].frequency < HopArray[i + 1].frequency
    /\ \A i \in 1..Len(thirdOctaveCenterFreqs) :
         i <= Len(HopArray)
           <=> thirdOctaveCenterFreqs[i] * 1000
                 < calcOutput.sampleRate * 5 * bandwidthFactor

\* a hop at 8 kHz after one at a higher rate: the pre-EQ array had 31
\* points and now ends with the 4 kHz band, the 24th
C24_Witness ==
  /\ calcOutput.stage = "hop"
  /\ calcOutput.stream = "pre"
  /\ calcOutput.sampleRate = 8000
  /\ calcOutput.previousSize = 31
  /\ Len(preEQSpectrumArray) = 24
  /\ preEQSpectrumArray[24].frequency = 40000
  /\ Len(spectrumArray) = 28

(***************************************************************************)
(* The transfer-function model on invalid input                            *)
(***************************************************************************)
\* Q and gain of the band that is set
MagnitudeQ == calcInput.qs[quarterBand]
MagnitudeGain == calcInput.gains[quarterBand]

CurrentFilters ==
  [i \in 1..numBands |->
     [frequency |-> thirdOctaveCenterFreqs[i], Q |-> bandQs[i],
      gainDB |-> bandGains[i]]]

\* C25: in every processBlock the coefficients of both banks are first set
\* from the gain and Q parameters of the moment; the pre-EQ pushes all
\* happen before any filter has run; then channel 0 runs through
\* leftFilters 0..30 in this order and channel 1 through rightFilters
\* 0..30, each with the coefficients set at the start of the block; the
\* post-EQ pushes happen only after that.
C25_BlockOrder ==
  /\ [][ /\ (audioPc.phase = "idle" /\ audioPc'.phase # "idle")
            => /\ calcOutput'.stage = "updateFilters"
               /\ calcOutput'.leftFilters = CurrentFilters
               /\ calcOutput'.rightFilters = CurrentFilters
               /\ calcOutput'.applied = << >>
         /\ PreEQPushStep
            => calcOutput.stage = "updateFilters" /\ calcOutput.applied = << >>
         /\ PostEQPushStep => calcOutput.stage = "filtered"
         /\ (calcOutput.stage = "updateFilters"
               /\ calcOutput'.stage = "filtered")
            => /\ preEQFifoIndex # 0
               /\ UNCHANGED << postVars, preVars, calcInput >>
               /\ calcOutput'.leftFilters = calcOutput.leftFilters
               /\ calcOutput'.rightFilters = calcOutput.rightFilters
        ]_vars
  /\ [](calcOutput.stage = "filtered" =>
         /\ Len(calcOutput.applied) = numBands * calcInput.numChannels
         /\ \A k \in 1..Len(calcOutput.applied) :
              LET f == calcOutput.applied[k]
              IN /\ f.channel = (k - 1) \div numBands
                 /\ f.band = (k - 1) % numBands
                 /\ f.bank = IF f.channel = 0 THEN "leftFilters"
                                              ELSE "rightFilters"
                 /\ f.coefficients =
                      IF f.channel = 0
                      THEN calcOutput.leftFilters[f.band + 1]
                      ELSE calcOutput.rightFilters[f.band + 1])

\* a stereo block is through: 62 filters have run with band 0 at -12 dB,
\* as it was when the block began, while the parameter has been moved to
\* +12 dB since
C25_Witness ==
  /\ calcOutput.stage = "filtered"
  /\ calcInput.numChannels = 2
  /\ audioPc.phase = "idle"
  /\ Len(calcOutput.applied) = 62
  /\ calcOutput.applied[1].coefficients.gainDB = -120
  /\ calcOutput.applied[62].bank = "rightFilters"
  /\ bandGains[1] = 120
  /\ fifoIndex = preEQFifoIndex

====
